---- MODULE Spec2Model ----
(***************************************************************************)
(* Shiftago-Qt: the board/rule engine of shiftago.core (Side, Slot,        *)
(* SlotsInLine, Shiftago) and of shiftago.core.express                     *)
(* (WinningLinesDetector, ShiftagoExpress).                                *)
(***************************************************************************)
EXTENDS Integers, Sequences, FiniteSets, TLC

VARIABLES
    board,                \* Shiftago._board: Slot -> Colour, None where the dict has no key
    colours,              \* Shiftago._colours: deque of Colour, head = colour to move
    game_over_condition,  \* ShiftagoExpress._game_over_condition
    move,                 \* argument of the last apply_move call
    ret,                  \* value returned by the last apply_move call
    raised,               \* exception raised by the last apply_move call
    events,               \* MoveObserver notifications of the last apply_move call
    before,               \* board, colours and game_over_condition when that call was made
    game,                 \* index of the game (colours and scripted opening) being played
    calls,                \* number of successful apply_move calls made so far
    query,                \* arguments of the last find_first_empty_slot call
    found,                \* value returned by the last find_first_empty_slot call
    possible_moves,       \* value returned by the last detect_all_possible_moves call
    copied,               \* the ShiftagoExpress made by copy.copy of the game
    skill_level,          \* AIEngine._skill_level of the engine
    frames,               \* the activations of _apply of the running select_move call
    selected,             \* report of the select_move call made on the game
    reselected,           \* report of a second select_move call on the same state
    minimax,              \* report of the same search made without the break of its loops
    lifecycle,            \* the constructor, colours setter and snapshot calls made so far
    current_state,        \* BoardController._state_machine.current_state
    machine,              \* number of _BoardStateMachine objects the controller has created
    move_selection_enabled, \* BoardView._move_selection_enabled: "True", "False", None while not set
    dialog,               \* the message box of show_starting_player is open
    thinking,             \* the ComputerThinkingWorker runs of _think that have not returned
    emitted,              \* MoveSelectedEvents emitted by workers, not yet handled by the main thread
    scene,                \* BoardScene._marbles and the animations of its _AnimationManager
    handled               \* the event BoardController.handle_event handled last

vars == <<board, colours, game_over_condition, move, ret, raised, events, before,
          game, calls, query, found, possible_moves, copied, skill_level, frames,
          selected, reselected, minimax, lifecycle, current_state, machine,
          move_selection_enabled, dialog, thinking, emitted, scene, handled>>

\* the variables of the user interface
ui == <<current_state, machine, move_selection_enabled, dialog, thinking, emitted,
        scene, handled>>

(***************************************************************************)
(* shiftago/core/__init__.py: constants and enumerations                   *)
(***************************************************************************)
NUM_SLOTS_PER_SIDE == 7
NUM_MARBLES_PER_COLOUR == 22

None == "None"

BLUE == "B"
GREEN == "G"
ORANGE == "O"
Colour == {BLUE, GREEN, ORANGE}

LEFT == "LEFT"
RIGHT == "RIGHT"
TOP == "TOP"
BOTTOM == "BOTTOM"
Side == {LEFT, RIGHT, TOP, BOTTOM}

position(side) == IF side \in {LEFT, TOP} THEN 0 ELSE NUM_SLOTS_PER_SIDE - 1

is_horizontal(side) == side \in {TOP, BOTTOM}

is_vertical(side) == ~is_horizontal(side)

shift_direction(side) == IF side \in {LEFT, TOP} THEN 1 ELSE -1

opposite(side) ==
    IF side = LEFT THEN RIGHT
    ELSE IF side = RIGHT THEN LEFT
    ELSE IF side = TOP THEN BOTTOM
    ELSE TOP

Positions == 0 .. NUM_SLOTS_PER_SIDE - 1

\* Slot(hor_pos, ver_pos) is the pair <<hor_pos, ver_pos>>
Slot(hor_pos, ver_pos) == <<hor_pos, ver_pos>>

hor_pos(slot) == slot[1]

ver_pos(slot) == slot[2]

Slots == {Slot(h, v) : h \in Positions, v \in Positions}

neighbour(slot, direction) ==
    IF is_vertical(direction)
    THEN Slot(hor_pos(slot) - shift_direction(direction), ver_pos(slot))
    ELSE Slot(hor_pos(slot), ver_pos(slot) - shift_direction(direction))

on_edge(side, pos) ==
    IF is_vertical(side) THEN Slot(position(side), pos) ELSE Slot(pos, position(side))

Move(side, pos) == [side |-> side, position |-> pos]

Moves == {Move(side, pos) : side \in Side, pos \in Positions}

NoMove == [side |-> None, position |-> 0]

\* GameOverCondition(winner); winner None is a draw.  NotOver is Python's None
\* in ShiftagoExpress._game_over_condition.
GameOverCondition(winner) == [over |-> TRUE, winner |-> winner]

NotOver == [over |-> FALSE, winner |-> None]

(***************************************************************************)
(* SlotsInLine and SlotsInLine.get_all                                     *)
(***************************************************************************)
HORIZONTAL == "HORIZONTAL"
VERTICAL == "VERTICAL"
ASCENDING == "ASCENDING"
DESCENDING == "DESCENDING"

to_neighbour(orientation, slot) ==
    IF orientation = HORIZONTAL THEN Slot(hor_pos(slot) + 1, ver_pos(slot))
    ELSE IF orientation = VERTICAL THEN Slot(hor_pos(slot), ver_pos(slot) + 1)
    ELSE IF orientation = ASCENDING THEN Slot(hor_pos(slot) + 1, ver_pos(slot) - 1)
    ELSE Slot(hor_pos(slot) + 1, ver_pos(slot) + 1)

RECURSIVE Advance(_, _, _)
\* the slot reached from slot by n applications of orientation.to_neighbour
Advance(orientation, slot, n) ==
    IF n = 0 THEN slot ELSE Advance(orientation, to_neighbour(orientation, slot), n - 1)

\* SlotsInLine(orientation, num_slots, start_slot)._slots: the tuple of slots
SlotsInLine(orientation, num_slots, start_slot) ==
    [i \in 1 .. num_slots |-> Advance(orientation, start_slot, i - 1)]

\* add_all_sub_lines of get_all: the lines it adds to all_lines
add_all_sub_lines(line_length, start_slot, orientation, board_line_length) ==
    {SlotsInLine(orientation, line_length, Advance(orientation, start_slot, k)) :
        k \in 0 .. board_line_length - line_length}

\* get_all without the diagonals that start on the upper or lower edge
get_all_from_left_edge(line_length) ==
    LET max_offset == NUM_SLOTS_PER_SIDE - line_length
        straight == UNION {
            add_all_sub_lines(line_length,
                              IF orientation = HORIZONTAL THEN Slot(0, offset) ELSE Slot(offset, 0),
                              orientation, NUM_SLOTS_PER_SIDE) :
            orientation \in {HORIZONTAL, VERTICAL}, offset \in 0 .. NUM_SLOTS_PER_SIDE - 1}
        diagonalFromLeft == UNION {
            add_all_sub_lines(line_length,
                              Slot(0, IF orientation = DESCENDING THEN offset
                                      ELSE NUM_SLOTS_PER_SIDE - 1 - offset),
                              orientation, NUM_SLOTS_PER_SIDE - offset) :
            orientation \in {DESCENDING, ASCENDING}, offset \in 0 .. max_offset}
    IN straight \cup diagonalFromLeft

get_all(line_length) ==
    LET max_offset == NUM_SLOTS_PER_SIDE - line_length
        straight == UNION {
            add_all_sub_lines(line_length,
                              IF orientation = HORIZONTAL THEN Slot(0, offset) ELSE Slot(offset, 0),
                              orientation, NUM_SLOTS_PER_SIDE) :
            orientation \in {HORIZONTAL, VERTICAL}, offset \in 0 .. NUM_SLOTS_PER_SIDE - 1}
        diagonalFromLeft == UNION {
            add_all_sub_lines(line_length,
                              Slot(0, IF orientation = DESCENDING THEN offset
                                      ELSE NUM_SLOTS_PER_SIDE - 1 - offset),
                              orientation, NUM_SLOTS_PER_SIDE - offset) :
            orientation \in {DESCENDING, ASCENDING}, offset \in 0 .. max_offset}
        diagonalFromEdge == UNION {
            add_all_sub_lines(line_length,
                              Slot(offset, IF orientation = DESCENDING THEN 0
                                           ELSE NUM_SLOTS_PER_SIDE - 1),
                              orientation, NUM_SLOTS_PER_SIDE - offset) :
            orientation \in {DESCENDING, ASCENDING}, offset \in 1 .. max_offset}
    IN straight \cup diagonalFromLeft \cup diagonalFromEdge

slots_of(line) == {line[i] : i \in DOMAIN line}

(***************************************************************************)
(* express.py: WinningLinesDetector                                        *)
(***************************************************************************)
\* WinningLinesDetector.__init__: the detector object
\* the loops of __init__ adding each line to the set of its first slot only
index_lines_by_start_slot(lines) ==
    LET added == {<<line[1], line>> : line \in lines}
    IN [slot \in Slots |-> {add[2] : add \in {a \in added : a[1] = slot}}]

\* the loops of __init__ over the lines and over the slots of each line: one
\* _slot_to_lines[slot].add(line) per pair, a slot without a key reading as set()
index_lines(lines) ==
    LET added == UNION {{<<line[i], line>> : i \in DOMAIN line} : line \in lines}
    IN [slot \in Slots |-> {add[2] : add \in {a \in added : a[1] = slot}}]

WinningLinesDetector(winning_match_degree) ==
    [winning_match_degree |-> winning_match_degree,
     slot_to_lines |-> index_lines(get_all(winning_match_degree))]

WINNING_LINES_DETECTOR_4 == WinningLinesDetector(4)

WINNING_LINES_DETECTOR_5 == WinningLinesDetector(5)

select_winning_lines_detector(cols) ==
    IF 3 <= Len(cols) /\ Len(cols) <= 4
    THEN WINNING_LINES_DETECTOR_4
    ELSE WINNING_LINES_DETECTOR_5

\* _build_match_degrees: per touched line, the number of slots of colour on it
build_match_degrees(detector, b, colour) ==
    LET mine == {slot \in Slots : b[slot] = colour}
        touched == UNION {detector.slot_to_lines[slot] : slot \in mine}
    IN [line \in touched |->
           Cardinality({slot \in mine : line \in detector.slot_to_lines[slot]})]

\* has_winning_line with the comparison "match_degree > winning_match_degree"
has_winning_line_longer(detector, b, colour) ==
    LET match_degrees == build_match_degrees(detector, b, colour)
    IN \E line \in DOMAIN match_degrees :
           match_degrees[line] > detector.winning_match_degree

has_winning_line(detector, b, colour) ==
    LET match_degrees == build_match_degrees(detector, b, colour)
    IN \E line \in DOMAIN match_degrees :
           match_degrees[line] = detector.winning_match_degree

\* winning_lines_of keeping also the lines one marble short of the winning
\* match degree
winning_lines_of_nearly_won(detector, b, colour) ==
    LET match_degrees == build_match_degrees(detector, b, colour)
    IN {line \in DOMAIN match_degrees :
           match_degrees[line] >= detector.winning_match_degree - 1}

winning_lines_of(detector, b, colour) ==
    LET match_degrees == build_match_degrees(detector, b, colour)
    IN {line \in DOMAIN match_degrees :
           match_degrees[line] = detector.winning_match_degree}

(***************************************************************************)
(* Shiftago: queries                                                       *)
(***************************************************************************)
NoSlot == <<>>

colour_at(b, slot) == b[slot]

colour_of_occupied_slot(b, slot) == b[slot]

\* ScanRange with the two ranges exchanged: the scan starts at the far edge
ScanRangeFromOpposite(side) ==
    IF side \in {LEFT, TOP}
    THEN [i \in 1 .. NUM_SLOTS_PER_SIDE |-> NUM_SLOTS_PER_SIDE - i]
    ELSE [i \in 1 .. NUM_SLOTS_PER_SIDE |-> i - 1]

\* the order in which find_first_empty_slot visits the 7 indices of the line
ScanRange(side) ==
    IF side \in {LEFT, TOP}
    THEN [i \in 1 .. NUM_SLOTS_PER_SIDE |-> i - 1]
    ELSE [i \in 1 .. NUM_SLOTS_PER_SIDE |-> NUM_SLOTS_PER_SIDE - i]

\* the slot with index k of the row/column targeted by (side, insert_pos)
LineSlot(side, insert_pos, k) ==
    IF is_vertical(side) THEN Slot(k, insert_pos) ELSE Slot(insert_pos, k)

RECURSIVE ScanFrom(_, _, _, _)
ScanFrom(b, side, insert_pos, i) ==
    IF i > NUM_SLOTS_PER_SIDE THEN NoSlot
    ELSE LET pos == LineSlot(side, insert_pos, ScanRange(side)[i])
         IN IF colour_at(b, pos) = None THEN pos
            ELSE ScanFrom(b, side, insert_pos, i + 1)

\* find_first_empty_slot with ranges that leave out the edge slot
find_first_empty_slot_past_edge(b, side, insert_pos) == ScanFrom(b, side, insert_pos, 2)

find_first_empty_slot(b, side, insert_pos) == ScanFrom(b, side, insert_pos, 1)

count_slots_per_colour(b, cols) ==
    [c \in {cols[i] : i \in DOMAIN cols} |-> Cardinality({slot \in Slots : b[slot] = c})]

count_occupied_slots(b) == Cardinality({slot \in Slots : b[slot] # None})

\* the loop body with only the first move appended
possible_moves_of_line_single(b, first, second, pos) ==
    IF find_first_empty_slot(b, first, pos) # NoSlot
    THEN <<Move(first, pos)>>
    ELSE <<>>

\* one pass of a loop of detect_all_possible_moves: what it appends for pos
possible_moves_of_line(b, first, second, pos) ==
    IF find_first_empty_slot(b, first, pos) # NoSlot
    THEN <<Move(first, pos), Move(second, pos)>>
    ELSE <<>>

RECURSIVE PossibleMovesFrom(_, _, _, _)
PossibleMovesFrom(b, first, second, pos) ==
    IF pos >= NUM_SLOTS_PER_SIDE THEN <<>>
    ELSE possible_moves_of_line(b, first, second, pos)
             \o PossibleMovesFrom(b, first, second, pos + 1)

detect_all_possible_moves(b) ==
    PossibleMovesFrom(b, TOP, BOTTOM, 0) \o PossibleMovesFrom(b, LEFT, RIGHT, 0)

RECURSIVE SumOver(_, _)
SumOver(f, S) ==
    IF S = {} THEN 0
    ELSE LET x == CHOOSE y \in S : TRUE IN f[x] + SumOver(f, S \ {x})

(***************************************************************************)
(* Shiftago._insert_marble                                                 *)
(***************************************************************************)
Shifted(slot, direction) == [kind |-> "shifted", slot |-> slot, direction |-> direction]

Inserted(slot) == [kind |-> "inserted", slot |-> slot, direction |-> None]

\* Python's range(start, stop, step) still yields cur
InRange(cur, stop, step) == IF step > 0 THEN cur < stop ELSE cur > stop

\* notify_marble_shifted called with side instead of side.opposite
shifted_event_towards_side(occupied, side) == Shifted(occupied, side)

\* the notification of one loop iteration of _insert_marble
shifted_event(occupied, side) == Shifted(occupied, opposite(side))

RECURSIVE ShiftLoop(_, _, _, _)
\* the for loop of _insert_marble from index cur on; st = [board, events]
ShiftLoop(st, side, pos, cur) ==
    IF ~InRange(cur, position(side), -shift_direction(side)) THEN st
    ELSE LET occupied == LineSlot(side, pos, cur - shift_direction(side))
             target == LineSlot(side, pos, cur)
         IN ShiftLoop([board |-> [st.board EXCEPT ![target] =
                                      colour_of_occupied_slot(st.board, occupied)],
                       events |-> Append(st.events, shifted_event(occupied, side))],
                      side, pos, cur - shift_direction(side))

\* _insert_marble with a loop that starts one slot nearer to the edge
insert_marble_short(b, cols, side, pos) ==
    LET first_empty_slot == find_first_empty_slot(b, side, pos)
        start == IF is_vertical(side) THEN hor_pos(first_empty_slot)
                 ELSE ver_pos(first_empty_slot)
        shifted == IF start = position(side) THEN [board |-> b, events |-> <<>>]
                   ELSE ShiftLoop([board |-> b, events |-> <<>>], side, pos,
                                  start - shift_direction(side))
        insert_slot == LineSlot(side, pos, position(side))
    IN [board |-> [shifted.board EXCEPT ![insert_slot] = cols[1]],
        events |-> Append(shifted.events, Inserted(insert_slot))]

\* _insert_marble without the loop that shifts the marbles of the line
insert_marble_without_shift(b, cols, side, pos) ==
    LET insert_slot == LineSlot(side, pos, position(side))
    IN [board |-> [b EXCEPT ![insert_slot] = cols[1]],
        events |-> <<Inserted(insert_slot)>>]

\* _insert_marble once first_empty_slot is known not to be None
insert_marble(b, cols, side, pos) ==
    LET first_empty_slot == find_first_empty_slot(b, side, pos)
        start == IF is_vertical(side) THEN hor_pos(first_empty_slot)
                 ELSE ver_pos(first_empty_slot)
        shifted == ShiftLoop([board |-> b, events |-> <<>>], side, pos, start)
        insert_slot == LineSlot(side, pos, position(side))
    IN [board |-> [shifted.board EXCEPT ![insert_slot] = cols[1]],
        events |-> Append(shifted.events, Inserted(insert_slot))]

\* deque.rotate(1) instead of deque.rotate(-1)
rotate_right(cols) == <<cols[Len(cols)]>> \o SubSeq(cols, 1, Len(cols) - 1)

\* deque.rotate(-1)
rotate(cols) == Append(Tail(cols), Head(cols))

(***************************************************************************)
(* ShiftagoExpress.apply_move                                              *)
(***************************************************************************)
AssertionError == "AssertionError"

\* the supply test applied to self._colours[0], the colour that just moved
colour_that_moved(cols) == cols[1]

\* the colour whose supply apply_move tests before it rotates: self._colours[1]
colour_to_move_next(cols) == cols[2]

\* evaluate_move with the free-slot and supply tests ahead of the win check
evaluate_move_draw_first(detector, b, cols, colour_to_move) ==
    LET num_slots_per_colour == count_slots_per_colour(b, cols)
    IN IF SumOver(num_slots_per_colour, DOMAIN num_slots_per_colour)
              >= NUM_SLOTS_PER_SIDE * NUM_SLOTS_PER_SIDE
          \/ num_slots_per_colour[colour_to_move_next(cols)] = NUM_MARBLES_PER_COLOUR
       THEN [game_over_condition |-> GameOverCondition(None), colours |-> cols]
       ELSE IF has_winning_line(detector, b, colour_to_move)
       THEN [game_over_condition |-> GameOverCondition(colour_to_move), colours |-> cols]
       ELSE [game_over_condition |-> NotOver, colours |-> rotate(cols)]

\* evaluate_move without the test for a free slot
evaluate_move_no_full_test(detector, b, cols, colour_to_move) ==
    IF has_winning_line(detector, b, colour_to_move)
    THEN [game_over_condition |-> GameOverCondition(colour_to_move), colours |-> cols]
    ELSE IF count_slots_per_colour(b, cols)[colour_to_move_next(cols)] = NUM_MARBLES_PER_COLOUR
    THEN [game_over_condition |-> GameOverCondition(None), colours |-> cols]
    ELSE [game_over_condition |-> NotOver, colours |-> rotate(cols)]

\* evaluate_move without the test of the next colour's supply
evaluate_move_no_supply_test(detector, b, cols, colour_to_move) ==
    IF has_winning_line(detector, b, colour_to_move)
    THEN [game_over_condition |-> GameOverCondition(colour_to_move), colours |-> cols]
    ELSE IF count_occupied_slots(b) < NUM_SLOTS_PER_SIDE * NUM_SLOTS_PER_SIDE
    THEN [game_over_condition |-> NotOver, colours |-> rotate(cols)]
    ELSE [game_over_condition |-> GameOverCondition(None), colours |-> cols]

\* evaluate_move that ends a game only with a winner
evaluate_move_never_drawn(detector, b, cols, colour_to_move) ==
    IF has_winning_line(detector, b, colour_to_move)
    THEN [game_over_condition |-> GameOverCondition(colour_to_move), colours |-> cols]
    ELSE [game_over_condition |-> NotOver, colours |-> rotate(cols)]

\* lines 206-221 of apply_move: the game-over condition and the colour
\* sequence after the marble of colour_to_move was inserted
evaluate_move(detector, b, cols, colour_to_move) ==
    IF has_winning_line(detector, b, colour_to_move)
    THEN [game_over_condition |-> GameOverCondition(colour_to_move), colours |-> cols]
    ELSE LET num_slots_per_colour == count_slots_per_colour(b, cols)
         IN IF SumOver(num_slots_per_colour, DOMAIN num_slots_per_colour)
                   < NUM_SLOTS_PER_SIDE * NUM_SLOTS_PER_SIDE
            THEN IF num_slots_per_colour[colour_to_move_next(cols)] = NUM_MARBLES_PER_COLOUR
                 THEN [game_over_condition |-> GameOverCondition(None), colours |-> cols]
                 ELSE [game_over_condition |-> NotOver, colours |-> rotate(cols)]
            ELSE [game_over_condition |-> GameOverCondition(None), colours |-> cols]

\* apply_move without the assertion on _game_over_condition
apply_move_after_game_over(b, cols, goc, m) ==
    IF find_first_empty_slot(b, m.side, m.position) = NoSlot
    THEN [board |-> b, colours |-> cols, game_over_condition |-> goc,
          events |-> <<>>, ret |-> NotOver, raised |-> AssertionError]
    ELSE LET colour_to_move == cols[1]
             inserted == insert_marble(b, cols, m.side, m.position)
             after == evaluate_move(select_winning_lines_detector(cols),
                                    inserted.board, cols, colour_to_move)
         IN [board |-> inserted.board, colours |-> after.colours,
             game_over_condition |-> after.game_over_condition,
             events |-> inserted.events, ret |-> after.game_over_condition,
             raised |-> None]

\* apply_move with an _insert_marble that puts the marble on the edge slot
\* before it asserts that the line has an empty slot
apply_move_insert_first(b, cols, goc, m) ==
    IF goc # NotOver
    THEN [board |-> b, colours |-> cols, game_over_condition |-> goc,
          events |-> <<>>, ret |-> NotOver, raised |-> AssertionError]
    ELSE IF find_first_empty_slot(b, m.side, m.position) = NoSlot
    THEN [board |-> [b EXCEPT ![on_edge(m.side, m.position)] = cols[1]],
          colours |-> cols, game_over_condition |-> goc,
          events |-> <<Inserted(on_edge(m.side, m.position))>>,
          ret |-> NotOver, raised |-> AssertionError]
    ELSE LET colour_to_move == cols[1]
             inserted == insert_marble(b, cols, m.side, m.position)
             after == evaluate_move(select_winning_lines_detector(cols),
                                    inserted.board, cols, colour_to_move)
         IN [board |-> inserted.board, colours |-> after.colours,
             game_over_condition |-> after.game_over_condition,
             events |-> inserted.events, ret |-> after.game_over_condition,
             raised |-> None]

\* apply_move on the state (b, cols, goc): the state it leaves, the events it
\* sends to the observer, what it returns and what it raises
apply_move(b, cols, goc, m) ==
    IF goc # NotOver \/ find_first_empty_slot(b, m.side, m.position) = NoSlot
    THEN [board |-> b, colours |-> cols, game_over_condition |-> goc,
          events |-> <<>>, ret |-> NotOver, raised |-> AssertionError]
    ELSE LET colour_to_move == cols[1]
             inserted == insert_marble(b, cols, m.side, m.position)
             after == evaluate_move(select_winning_lines_detector(cols),
                                    inserted.board, cols, colour_to_move)
         IN [board |-> inserted.board, colours |-> after.colours,
             game_over_condition |-> after.game_over_condition,
             events |-> inserted.events, ret |-> after.game_over_condition,
             raised |-> None]

(***************************************************************************)
(* ShiftagoExpress.__copy__ and Shiftago.__init__(orig=...)                *)
(***************************************************************************)
\* the attributes of a ShiftagoExpress; the detector follows from the colours
State(b, cols, goc) == [board |-> b, colours |-> cols, game_over_condition |-> goc]

\* __init__(orig=...) binding the board of orig instead of a copy of it
containers_shared_with_orig_board == {"_board"}

\* the containers of orig that an instance built by __init__(orig=orig) shares
\* with orig: none, the deque and the dict are both copied
containers_shared_with_orig == {}

copy(orig) == State(orig.board, orig.colours, orig.game_over_condition)

\* the state of an instance after the instance it was copied from, or its
\* copy, has become `mutated`: shared containers show the other's content
seen_after(holder, mutated) ==
    [holder EXCEPT
        !.board = IF "_board" \in containers_shared_with_orig THEN mutated.board ELSE @,
        !.colours = IF "_colours" \in containers_shared_with_orig
                    THEN mutated.colours ELSE @]

winning_line_length(game_state) ==
    select_winning_lines_detector(game_state.colours).winning_match_degree

(***************************************************************************)
(* shiftago.core: SkillLevel; express.py: detect_winning_lines             *)
(***************************************************************************)
ROOKIE == 0
ADVANCED == 1
EXPERT == 2
GRANDMASTER == 3
SkillLevel == {ROOKIE, ADVANCED, EXPERT, GRANDMASTER}

\* the dict of one colour built by determine_match_degrees, as the set of
\* its items <<line, match_degree>>
match_degree_items(detector, b, colour, min_match_degree) ==
    LET match_degrees == build_match_degrees(detector, b, colour)
        items == {<<line, match_degrees[line]>> : line \in DOMAIN match_degrees}
    IN {item \in items : item[2] >= min_match_degree}

\* determine_match_degrees: per colour of the sequence, the lines holding at
\* least min_match_degree marbles of the colour, each with that number
determine_match_degrees(detector, game_state, min_match_degree) ==
    [i \in DOMAIN game_state.colours |->
        match_degree_items(detector, game_state.board, game_state.colours[i],
                           min_match_degree)]

detect_winning_lines(game_state, min_match_count) ==
    determine_match_degrees(select_winning_lines_detector(game_state.colours),
                            game_state, min_match_count)

(***************************************************************************)
(* express_ai.py: analyze_colour_placements, _Rating, _Node,               *)
(* _MiniMaxStrategy                                                        *)
(***************************************************************************)
\* analyze_colour_placements asking for the lines of match degree 1 and more
analyze_colour_placements_from_one(game_state) ==
    LET winning_line_matches == detect_winning_lines(game_state, 1)
    IN [player_idx \in DOMAIN winning_line_matches |->
           [match_group_index \in 0 .. NUM_SLOTS_PER_SIDE |->
               Cardinality({item \in winning_line_matches[player_idx] :
                   item[2] = match_group_index})]]

\* per colour of the sequence: match degree -> number of lines of that degree,
\* a defaultdict that reads 0 for a degree without a key
analyze_colour_placements(game_state) ==
    LET winning_line_matches == detect_winning_lines(game_state, 2)
    IN [player_idx \in DOMAIN winning_line_matches |->
           [match_group_index \in 0 .. NUM_SLOTS_PER_SIDE |->
               Cardinality({item \in winning_line_matches[player_idx] :
                   item[2] = match_group_index})]]

Rating(value, depth) == [value |-> value, depth |-> depth]

\* _optimal_rating = None
NoRating == Rating(0, 0)

\* the attributes of a _Node whose apply_move call ended as res, and the state
\* of from_game_state after that call
node_of(from_game_state, m, res) ==
    [move |-> m,
     target_game_state |-> State(res.board, res.colours, res.game_over_condition),
     game_over_condition |-> res.ret,
     raised |-> res.raised,
     from_game_state |->
         seen_after(from_game_state,
                    State(res.board, res.colours, res.game_over_condition))]

\* _Node.__init__ calling apply_move on from_game_state itself
Node_of_the_state_itself(from_game_state, m) ==
    node_of(State(apply_move(from_game_state.board, from_game_state.colours,
                             from_game_state.game_over_condition, m).board,
                  apply_move(from_game_state.board, from_game_state.colours,
                             from_game_state.game_over_condition, m).colours,
                  apply_move(from_game_state.board, from_game_state.colours,
                             from_game_state.game_over_condition, m).game_over_condition),
            m,
            apply_move(from_game_state.board, from_game_state.colours,
                       from_game_state.game_over_condition, m))

\* _Node.__init__: apply_move on a copy of from_game_state
Node(from_game_state, m) ==
    node_of(from_game_state, m,
            apply_move(copy(from_game_state).board, copy(from_game_state).colours,
                       copy(from_game_state).game_over_condition, m))

is_leaf(node) == node.game_over_condition # NotOver

\* math.inf: above every rating value
inf == 1000000

\* rating values are held in units of 10^-4, the weight of a line with two
\* marbles when the winning length is 5: _pow10(exp) for exp in -4 .. -1
RatingUnit == 10000

pow10(exp) == 10 ^ (exp + 4)

\* _MiniMaxStrategy.__init__ of _Maximizer (is_maximizing) and _Minimizer
MiniMaxStrategy(is_maximizing, alpha_beta) ==
    [is_maximizing |-> is_maximizing,
     alpha |-> alpha_beta[1],
     beta |-> alpha_beta[2],
     win_rating_value |-> IF is_maximizing THEN 1 ELSE -1,
     optimal_rating |-> NoRating]

\* evaluate taking the first placements for those of the current player
evaluate_colours_swapped(strategy, node) ==
    IF node.game_over_condition # NotOver
    THEN IF node.game_over_condition.winner # None
         THEN strategy.win_rating_value * RatingUnit
         ELSE 0
    ELSE LET placements == analyze_colour_placements(node.target_game_state)
             opponent_placements == placements[2]
             current_player_placements == placements[1]
             length == winning_line_length(node.target_game_state)
         IN SumOver([i \in 2 .. length |->
                        (current_player_placements[i] - opponent_placements[i])
                            * pow10(-(length - i + 1)) * strategy.win_rating_value],
                    2 .. length)

evaluate(strategy, node) ==
    IF node.game_over_condition # NotOver
    THEN IF node.game_over_condition.winner # None
         THEN strategy.win_rating_value * RatingUnit
         ELSE 0
    ELSE LET placements == analyze_colour_placements(node.target_game_state)
             opponent_placements == placements[1]
             current_player_placements == placements[2]
             length == winning_line_length(node.target_game_state)
         IN SumOver([i \in 2 .. length |->
                        (current_player_placements[i] - opponent_placements[i])
                            * pow10(-(length - i + 1)) * strategy.win_rating_value],
                    2 .. length)

RECURSIVE RatingsFrom(_, _, _, _)
\* the ratings of sort_nodes for nodes[lo .. hi], as a sequence
RatingsFrom(strategy, nodes, lo, hi) ==
    IF lo > hi THEN <<>>
    ELSE IF lo = hi THEN <<evaluate(strategy, nodes[lo])>>
    ELSE LET mid == (lo + hi) \div 2
         IN RatingsFrom(strategy, nodes, lo, mid) \o RatingsFrom(strategy, nodes, mid + 1, hi)

\* list.sort is stable, also with reverse=True: the place of nodes[k] in the
\* sorted list is the number of nodes whose rating comes strictly before its
\* own plus the number of earlier nodes with its rating
sorted_index(ratings, reverse, k) ==
    LET ahead == {j \in DOMAIN ratings :
                     \/ IF reverse THEN ratings[j] > ratings[k] ELSE ratings[j] < ratings[k]
                     \/ ratings[j] = ratings[k] /\ j < k}
    IN Cardinality(ahead) + 1

sort_nodes(strategy, nodes) ==
    LET ratings == RatingsFrom(strategy, nodes, 1, Len(nodes))
    IN [p \in DOMAIN nodes |->
           nodes[CHOOSE k \in DOMAIN nodes :
                     sorted_index(ratings, strategy.is_maximizing, k) = p]]

can_prune(strategy) == strategy.alpha >= strategy.beta

Max(a, b) == IF a >= b THEN a ELSE b

Min(a, b) == IF a <= b THEN a ELSE b

\* check_optimal keeping, of two ratings of one value, the one found deeper
check_optimal_deepest(strategy, rating) ==
    LET optimal_rating == strategy.optimal_rating
        better == IF strategy.is_maximizing THEN rating.value > optimal_rating.value
                  ELSE rating.value < optimal_rating.value
    IN IF optimal_rating = NoRating \/ better
       THEN [strategy |->
                 [strategy EXCEPT
                     !.optimal_rating = rating,
                     !.alpha = IF strategy.is_maximizing THEN Max(@, rating.value) ELSE @,
                     !.beta = IF strategy.is_maximizing THEN @ ELSE Min(@, rating.value)],
             optimal |-> TRUE]
       ELSE IF rating.value = optimal_rating.value /\ rating.depth > optimal_rating.depth
       THEN [strategy |-> [strategy EXCEPT !.optimal_rating = rating], optimal |-> TRUE]
       ELSE [strategy |-> strategy, optimal |-> FALSE]

\* check_optimal keeping, of two ratings of one value, the one found first
check_optimal_first_found(strategy, rating) ==
    LET optimal_rating == strategy.optimal_rating
        better == IF strategy.is_maximizing THEN rating.value > optimal_rating.value
                  ELSE rating.value < optimal_rating.value
    IN IF optimal_rating = NoRating \/ better
       THEN [strategy |->
                 [strategy EXCEPT
                     !.optimal_rating = rating,
                     !.alpha = IF strategy.is_maximizing THEN Max(@, rating.value) ELSE @,
                     !.beta = IF strategy.is_maximizing THEN @ ELSE Min(@, rating.value)],
             optimal |-> TRUE]
       ELSE [strategy |-> strategy, optimal |-> FALSE]

\* _Maximizer.check_optimal and _Minimizer.check_optimal: the strategy after
\* the call and the value returned
check_optimal(strategy, rating) ==
    LET optimal_rating == strategy.optimal_rating
        better == IF strategy.is_maximizing THEN rating.value > optimal_rating.value
                  ELSE rating.value < optimal_rating.value
        winning == IF strategy.is_maximizing THEN rating.value > 0 ELSE rating.value < 0
    IN IF optimal_rating = NoRating \/ better
       THEN [strategy |->
                 [strategy EXCEPT
                     !.optimal_rating = rating,
                     !.alpha = IF strategy.is_maximizing THEN Max(@, rating.value) ELSE @,
                     !.beta = IF strategy.is_maximizing THEN @ ELSE Min(@, rating.value)],
             optimal |-> TRUE]
       ELSE IF /\ rating.value = optimal_rating.value
               /\ IF winning THEN rating.depth < optimal_rating.depth
                  ELSE rating.depth > optimal_rating.depth
       THEN [strategy |-> [strategy EXCEPT !.optimal_rating = rating], optimal |-> TRUE]
       ELSE [strategy |-> strategy, optimal |-> FALSE]

(***************************************************************************)
(* express_ai.py: AlphaBetaPruning                                         *)
(***************************************************************************)
\* _max_depth one ply deeper
max_depth_of_three_more(level) == 3 + level

\* AlphaBetaPruning.__init__: _max_depth
max_depth(level) == 2 + level

\* the list of one _Node, empty when its apply_move raised
node_list(node) ==
    [nodes |-> IF node.raised # None THEN <<>>
               ELSE <<[move |-> node.move,
                       target_game_state |-> node.target_game_state,
                       game_over_condition |-> node.game_over_condition]>>,
     game_state |-> node.from_game_state,
     raised |-> node.raised]

RECURSIVE NodesFrom(_, _, _, _)
\* [_Node(game_state, move) for move in moves[lo .. hi]], with the state of
\* game_state when the list is built
NodesFrom(game_state, moves, lo, hi) ==
    IF lo > hi THEN [nodes |-> <<>>, game_state |-> game_state, raised |-> None]
    ELSE IF lo = hi THEN node_list(Node(game_state, moves[lo]))
    ELSE LET mid == (lo + hi) \div 2
             head == NodesFrom(game_state, moves, lo, mid)
             tail == NodesFrom(head.game_state, moves, mid + 1, hi)
         IN IF head.raised # None THEN head
            ELSE [nodes |-> head.nodes \o tail.nodes, game_state |-> tail.game_state,
                  raised |-> tail.raised]

\* what a call of select_move reports: the move and the rating of _apply, or
\* the exception raised
Report(m, rating, exception) == [move |-> m, rating |-> rating, raised |-> exception]

\* the locals of an activation of _apply when its loop starts, the nodes
\* being built; rated records the moves and ratings the loop has passed to
\* check_optimal
frame_of(depth, strategy, built, max) ==
    [depth |-> depth,
     strategy |-> strategy,
     nodes |-> IF depth < max THEN sort_nodes(strategy, built.nodes) ELSE built.nodes,
     each_node |-> 1,
     optimal_move |-> NoMove,
     broken |-> FALSE,
     rated |-> <<>>,
     raised |-> built.raised,
     game_state |-> built.game_state]

\* _apply up to its loop; game_state is the state of the argument once the
\* nodes are built
Frame(game_state, depth, alpha_beta, max) ==
    frame_of(depth, MiniMaxStrategy(depth % 2 = 1, alpha_beta),
             NodesFrom(game_state, detect_all_possible_moves(game_state.board), 1,
                       Len(detect_all_possible_moves(game_state.board))),
             max)

\* the loop of _apply is over: the list is exhausted or the break was taken
loop_done(frame) ==
    frame.raised # None \/ frame.broken \/ frame.each_node > Len(frame.nodes)

\* the node of the loop is rated by evaluate instead of a deeper _apply
rated_here(frame, max) ==
    is_leaf(frame.nodes[frame.each_node]) \/ frame.depth = max

\* the tail of the loop body of _apply: check_optimal on current_rating, the
\* break, and the step to the next node; a deeper _apply that raised ends the
\* loop
loop_tail(frame, current_rating, exception) ==
    LET checked == check_optimal(frame.strategy, current_rating)
    IN IF exception # None THEN [frame EXCEPT !.raised = exception]
       ELSE [frame EXCEPT
                !.strategy = checked.strategy,
                !.optimal_move = IF checked.optimal THEN frame.nodes[frame.each_node].move
                                 ELSE @,
                !.broken = checked.optimal /\ can_prune(checked.strategy),
                !.rated = Append(@, [move |-> frame.nodes[frame.each_node].move,
                                     rating |-> current_rating]),
                !.each_node = @ + 1]

\* what _apply returns to select_move: the assert on optimal_move fails when
\* the loop never found a move
returned(frame) ==
    IF frame.raised # None THEN Report(NoMove, NoRating, frame.raised)
    ELSE IF frame.optimal_move = NoMove THEN Report(NoMove, NoRating, AssertionError)
    ELSE Report(frame.optimal_move, frame.strategy.optimal_rating, None)

\* random.choice always returning the first element
choice_of_first(seq) == {seq[1]}

\* random.choice(seq): the values the call can return
choice(seq) == {seq[i] : i \in DOMAIN seq}

\* select_move with the search started only above two occupied slots
searches_above_two(game_state) == count_occupied_slots(game_state.board) > 2

\* select_move: the test that sends the call into _apply
searches(game_state) == count_occupied_slots(game_state.board) > 1

(***************************************************************************)
(* The games played: every behaviour starts from the empty board of a new  *)
(* ShiftagoExpress, replays one scripted opening and then makes up to      *)
(* MaxFreeMoves arbitrary apply_move calls.                                *)
(***************************************************************************)
MaxFreeMoves == 1

EmptyBoard == [slot \in Slots |-> None]

\* 43 moves of a two-colour game without a winner: BLUE has placed its 22
\* marbles, GREEN 21, GREEN is to move and can either complete a line of five
\* or leave BLUE without a marble to insert
OpeningExhaustion == <<
    Move(RIGHT, 4), Move(TOP, 1), Move(BOTTOM, 2), Move(RIGHT, 1), Move(LEFT, 3),
    Move(BOTTOM, 4), Move(RIGHT, 2), Move(RIGHT, 0), Move(LEFT, 3), Move(TOP, 2),
    Move(LEFT, 4), Move(BOTTOM, 3), Move(RIGHT, 6), Move(LEFT, 5), Move(TOP, 0),
    Move(BOTTOM, 6), Move(TOP, 3), Move(LEFT, 4), Move(LEFT, 0), Move(BOTTOM, 4),
    Move(LEFT, 0), Move(BOTTOM, 5), Move(RIGHT, 3), Move(LEFT, 4), Move(TOP, 1),
    Move(BOTTOM, 0), Move(BOTTOM, 1), Move(RIGHT, 4), Move(RIGHT, 4), Move(RIGHT, 4),
    Move(LEFT, 3), Move(TOP, 4), Move(TOP, 1), Move(TOP, 5), Move(LEFT, 5),
    Move(RIGHT, 2), Move(BOTTOM, 0), Move(LEFT, 2), Move(LEFT, 3), Move(RIGHT, 5),
    Move(BOTTOM, 0), Move(TOP, 3), Move(RIGHT, 1)
>>

\* 48 moves of a three-colour game without a winner: one slot is left, BLUE
\* is to move and can either complete a line of four or fill the board
OpeningFullBoard == <<
    Move(RIGHT, 4), Move(TOP, 1), Move(BOTTOM, 2), Move(RIGHT, 1), Move(LEFT, 3),
    Move(BOTTOM, 4), Move(RIGHT, 2), Move(RIGHT, 0), Move(LEFT, 3), Move(TOP, 2),
    Move(LEFT, 4), Move(BOTTOM, 3), Move(RIGHT, 6), Move(LEFT, 5), Move(TOP, 0),
    Move(BOTTOM, 6), Move(TOP, 3), Move(LEFT, 4), Move(LEFT, 0), Move(BOTTOM, 4),
    Move(LEFT, 0), Move(BOTTOM, 5), Move(RIGHT, 3), Move(LEFT, 4), Move(TOP, 1),
    Move(BOTTOM, 2), Move(BOTTOM, 2), Move(RIGHT, 4), Move(RIGHT, 3), Move(RIGHT, 5),
    Move(BOTTOM, 4), Move(TOP, 3), Move(RIGHT, 5), Move(LEFT, 3), Move(RIGHT, 1),
    Move(LEFT, 3), Move(RIGHT, 4), Move(BOTTOM, 4), Move(BOTTOM, 3), Move(RIGHT, 1),
    Move(LEFT, 1), Move(TOP, 5), Move(BOTTOM, 1), Move(BOTTOM, 0), Move(RIGHT, 1),
    Move(LEFT, 5), Move(RIGHT, 2), Move(RIGHT, 2)
>>

\* BLUE holds (0..3, 0) and GREEN (0..3, 1) and (4, 0): Move(TOP, 4) completes
\* BLUE's row 0 and pushes GREEN's marble into row 1
OpeningDoubleLine == <<
    Move(TOP, 0), Move(LEFT, 1), Move(TOP, 1), Move(LEFT, 1), Move(TOP, 2),
    Move(LEFT, 1), Move(TOP, 3), Move(LEFT, 1), Move(BOTTOM, 6), Move(TOP, 4)
>>

\* GREEN holds (0..3, 1) and (4, 0), BLUE has no four in a line through
\* (4, 0): Move(TOP, 4) completes a line of GREEN only
OpeningPushedLine == <<
    Move(BOTTOM, 0), Move(LEFT, 1), Move(BOTTOM, 1), Move(LEFT, 1), Move(BOTTOM, 2),
    Move(LEFT, 1), Move(BOTTOM, 3), Move(LEFT, 1), Move(BOTTOM, 5), Move(TOP, 4)
>>

\* a middle game: more than half of OpeningExhaustion
OpeningMidGame == SubSeq(OpeningExhaustion, 1, Len(OpeningExhaustion) \div 2 + 3)

\* OpeningExhaustion and GREEN's 22nd marble, which ends the game in a draw
OpeningDrawn == Append(OpeningExhaustion, Move(TOP, 3))

\* a middle game of three colours: more than half of OpeningFullBoard
OpeningMidGame3 == SubSeq(OpeningFullBoard, 1, Len(OpeningFullBoard) \div 2 + 3)

\* ShiftagoDeser._deserialize_board: the board of a snapshot, given as the
\* rows of colour symbols of its 'board' entry
deserialize_board(rows) == [slot \in Slots |-> rows[ver_pos(slot) + 1][hor_pos(slot) + 1]]

\* snapshots of boards with one empty slot and no line of five (of four for
\* three colours): 24 + 24, 26 + 22 and 22 + 13 + 13 marbles
SnapshotEven ==
    << <<"G", "G", "G", "B", "B", "B", "G">>,
        <<"G", "B", "G", "G", "B", "B", "B">>,
        <<"G", "G", "G", "B", "G", "G", "B">>,
        <<"None", "G", "G", "B", "G", "B", "G">>,
        <<"G", "B", "B", "G", "B", "B", "B">>,
        <<"B", "G", "B", "G", "B", "G", "B">>,
        <<"G", "B", "G", "B", "B", "B", "G">> >>

SnapshotUneven ==
    << <<"G", "B", "B", "None", "G", "G", "B">>,
        <<"B", "B", "B", "G", "G", "B", "B">>,
        <<"G", "G", "G", "G", "B", "G", "B">>,
        <<"B", "G", "G", "G", "B", "B", "G">>,
        <<"B", "B", "B", "B", "G", "B", "B">>,
        <<"G", "B", "G", "G", "G", "B", "B">>,
        <<"B", "B", "B", "G", "G", "G", "B">> >>

SnapshotOfThree ==
    << <<"B", "B", "O", "B", "G", "O", "B">>,
        <<"B", "G", "B", "O", "G", "B", "O">>,
        <<"O", "B", "G", "G", "G", "B", "None">>,
        <<"O", "B", "O", "O", "O", "B", "B">>,
        <<"B", "O", "B", "B", "G", "G", "G">>,
        <<"G", "B", "B", "B", "O", "G", "G">>,
        <<"O", "G", "B", "B", "O", "B", "B">> >>

\* snapshots of two-colour boards with five or six empty slots and no line of
\* five: BLUE, to move, can complete a line of five at once; no line of five
\* can be forced within five moves; BLUE can force a line of five with its
\* third move
SnapshotWinInOne ==
    << <<"B", "B", "B", "G", "G", "B", "B">>,
        <<"B", "B", "B", "G", "G", "G", "B">>,
        <<"G", "G", "B", "G", "B", "B", "B">>,
        <<"B", "B", "None", "None", "G", "B", "G">>,
        <<"G", "None", "None", "G", "B", "B", "B">>,
        <<"G", "B", "None", "None", "B", "B", "B">>,
        <<"B", "B", "G", "G", "B", "G", "B">> >>

SnapshotUndecided ==
    << <<"G", "G", "None", "B", "B", "B", "G">>,
        <<"G", "None", "None", "None", "G", "G", "G">>,
        <<"G", "G", "None", "None", "B", "B", "G">>,
        <<"B", "B", "G", "G", "G", "G", "B">>,
        <<"G", "G", "B", "B", "B", "G", "G">>,
        <<"G", "G", "B", "G", "B", "B", "B">>,
        <<"B", "G", "G", "G", "B", "B", "G">> >>

SnapshotForcedWin ==
    << <<"G", "G", "B", "B", "G", "G", "G">>,
        <<"G", "G", "B", "G", "G", "G", "G">>,
        <<"G", "G", "B", "None", "B", "None", "B">>,
        <<"B", "G", "G", "None", "None", "None", "B">>,
        <<"B", "B", "B", "G", "G", "B", "G">>,
        <<"G", "G", "G", "G", "B", "G", "B">>,
        <<"G", "B", "G", "G", "B", "B", "G">> >>

\* the first move and the first two moves of a game
OpeningOne == <<Move(TOP, 3)>>

OpeningTwo == <<Move(TOP, 3), Move(LEFT, 3)>>

Games == <<
    [colours |-> <<BLUE, GREEN>>, board |-> EmptyBoard, opening |-> <<>>],
    [colours |-> <<BLUE, GREEN, ORANGE>>, board |-> EmptyBoard, opening |-> <<>>],
    [colours |-> <<BLUE, GREEN>>, board |-> EmptyBoard, opening |-> OpeningExhaustion],
    [colours |-> <<BLUE, GREEN, ORANGE>>, board |-> EmptyBoard, opening |-> OpeningFullBoard],
    [colours |-> <<BLUE, GREEN>>, board |-> EmptyBoard, opening |-> OpeningDoubleLine],
    [colours |-> <<BLUE, GREEN>>, board |-> EmptyBoard, opening |-> OpeningPushedLine],
    [colours |-> <<BLUE, GREEN>>, board |-> EmptyBoard, opening |-> OpeningMidGame],
    [colours |-> <<BLUE, GREEN>>, board |-> EmptyBoard, opening |-> OpeningDrawn],
    [colours |-> <<BLUE, GREEN, ORANGE>>, board |-> EmptyBoard, opening |-> OpeningMidGame3],
    [colours |-> <<BLUE, GREEN>>, board |-> deserialize_board(SnapshotEven), opening |-> <<>>],
    [colours |-> <<BLUE, GREEN>>, board |-> deserialize_board(SnapshotUneven), opening |-> <<>>],
    [colours |-> <<BLUE, GREEN, ORANGE>>, board |-> deserialize_board(SnapshotOfThree),
     opening |-> <<>>],
    [colours |-> <<BLUE, GREEN>>, board |-> EmptyBoard, opening |-> OpeningOne],
    [colours |-> <<BLUE, GREEN>>, board |-> EmptyBoard, opening |-> OpeningTwo],
    [colours |-> <<BLUE, GREEN>>, board |-> deserialize_board(SnapshotWinInOne),
     opening |-> <<>>],
    [colours |-> <<BLUE, GREEN>>, board |-> deserialize_board(SnapshotUndecided),
     opening |-> <<>>],
    [colours |-> <<BLUE, GREEN>>, board |-> deserialize_board(SnapshotForcedWin),
     opening |-> <<>>]
>>

\* the games that start as a new ShiftagoExpress(colours), on the empty board
Played == {g \in DOMAIN Games : Games[g].board = EmptyBoard}

Opening == Games[game].opening

NoQuery == [side |-> None, position |-> 0]

\* no detect_all_possible_moves call, no copy and no select_move call yet
Undetected == <<NoMove>>

NoCopy == State(EmptyBoard, <<>>, NotOver)

NotSelected == Report(NoMove, NoRating, None)

\* the user interface after ShiftagoQtExpress has constructed model, view and
\* controller and started the first game: the starting player is shown
Started ==
    /\ current_state = "StartPlayerNotification"
    /\ machine = 1
    /\ move_selection_enabled = None
    /\ dialog = TRUE
    /\ thinking = {}
    /\ emitted = <<>>
    /\ scene = [marbles |-> EmptyBoard, running |-> <<>>, waiting |-> <<>>,
                finished |-> 0, stalled |-> FALSE, raised |-> None, replaced |-> FALSE]
    /\ handled = [event |-> None, state |-> "StartPlayerNotification", raised |-> None,
                  source |-> 0, previous |-> None]

\* the state of a ShiftagoExpress constructed for game g
Constructed(g) ==
    /\ game = g
    /\ colours = Games[g].colours
    /\ board = Games[g].board
    /\ game_over_condition = NotOver
    /\ move = NoMove
    /\ ret = NotOver
    /\ raised = None
    /\ events = <<>>
    /\ before = State(board, colours, game_over_condition)
    /\ calls = 0
    /\ query = NoQuery
    /\ found = NoSlot
    /\ possible_moves = Undetected
    /\ copied = NoCopy
    /\ skill_level = ADVANCED
    /\ frames = <<>>
    /\ selected = NotSelected
    /\ reselected = NotSelected
    /\ minimax = NotSelected
    /\ lifecycle = <<>>
    /\ Started

Init == \E g \in Played : Constructed(g)

\* games on the empty board and games deserialized from a snapshot
InitLoaded == \E g \in DOMAIN Games : Constructed(g)

\* the moves the environment may submit next
Submitted ==
    IF calls < Len(Opening) THEN {Opening[calls + 1]}
    ELSE IF calls < Len(Opening) + MaxFreeMoves THEN Moves
    ELSE {}

ApplyMove(m) ==
    LET res == apply_move(board, colours, game_over_condition, m)
    IN /\ m \in Submitted
       /\ board' = res.board
       /\ colours' = res.colours
       /\ game_over_condition' = res.game_over_condition
       /\ events' = res.events
       /\ ret' = res.ret
       /\ raised' = res.raised
       /\ move' = m
       /\ before' = State(board, colours, game_over_condition)
       /\ calls' = IF res.raised = None THEN calls + 1 ELSE calls
       /\ copied' = IF copied = NoCopy THEN NoCopy
                    ELSE seen_after(copied, State(res.board, res.colours,
                                                  res.game_over_condition))
       /\ possible_moves' = Undetected
       /\ UNCHANGED <<game, query, found, skill_level, frames, selected, reselected, minimax, lifecycle, ui>>

Next == \E m \in Moves : ApplyMove(m)

Spec == Init /\ [][Next]_vars

SpecLoaded == InitLoaded /\ [][Next]_vars

(***************************************************************************)
(* Games in which the moves of the scripted opening are made and           *)
(* detect_all_possible_moves is called on the positions met.               *)
(***************************************************************************)
\* the next move of the opening is applied to the game
ScriptedMove ==
    /\ calls < Len(Opening)
    /\ ApplyMove(Opening[calls + 1])

DetectAllPossibleMoves ==
    /\ possible_moves = Undetected
    /\ possible_moves' = detect_all_possible_moves(board)
    /\ UNCHANGED <<board, colours, game_over_condition, move, ret, raised, events,
                   before, game, calls, query, found, copied, skill_level, frames,
                   selected, reselected, minimax, lifecycle, ui>>

NextMoves == Next \/ DetectAllPossibleMoves

SpecMoves == Init /\ [][NextMoves]_vars

(***************************************************************************)
(* Games of which a copy is taken near the end of the opening; apply_move  *)
(* is then called on the copy and on the game.                             *)
(***************************************************************************)
MaxAhead == 1

MaxCopyMoves == 1

Copy ==
    /\ copied = NoCopy
    /\ Len(Opening) - calls <= MaxAhead
    /\ copied' = copy(State(board, colours, game_over_condition))
    /\ UNCHANGED <<board, colours, game_over_condition, move, ret, raised, events,
                   before, game, calls, query, found, possible_moves, skill_level,
                   frames, selected, reselected, minimax, lifecycle, ui>>

\* apply_move called on the copy; the game shows what it shares with the copy
ApplyMoveOnCopy(m) ==
    LET res == apply_move(copied.board, copied.colours, copied.game_over_condition, m)
        mutated == State(res.board, res.colours, res.game_over_condition)
        game_state == seen_after(State(board, colours, game_over_condition), mutated)
    IN /\ copied # NoCopy
       /\ count_occupied_slots(copied.board) - count_occupied_slots(board) < MaxCopyMoves
       /\ copied' = mutated
       /\ board' = game_state.board
       /\ colours' = game_state.colours
       /\ UNCHANGED <<game_over_condition, move, ret, raised, events, before, game,
                      calls, query, found, possible_moves, skill_level, frames,
                      selected, reselected, minimax, lifecycle, ui>>

NextCopy ==
    \/ ScriptedMove
    \/ Copy
    \/ \E m \in Moves : ApplyMoveOnCopy(m)

SpecCopy == InitLoaded /\ [][NextCopy]_vars

(***************************************************************************)
(* Games in which AlphaBetaPruning(level).select_move is called on the     *)
(* position reached by the opening, and a second time on the same          *)
(* position. The recursion of _apply is run one loop iteration at a time:  *)
(* frames holds its activations, the innermost last.                       *)
(***************************************************************************)
MaxOpenMoves == 12

\* engines of every level are asked on boards with few open rows and columns
\* and where no search is run, a ROOKIE engine on every board
Engaged(level) ==
    \/ level = ROOKIE
    \/ ~searches(State(board, colours, game_over_condition))
    \/ Len(detect_all_possible_moves(board)) <= MaxOpenMoves

\* select_move returns or raises: the report goes to the call that was made
Finish(report) ==
    /\ frames' = <<>>
    /\ IF selected = NotSelected
       THEN selected' = report /\ UNCHANGED <<reselected, minimax>>
       ELSE reselected' = report /\ UNCHANGED <<selected, minimax>>

\* select_move up to the first loop iteration of _apply(game_state, 1, ...),
\* or to its return where no search is run
SelectMove(level) ==
    LET game_state == State(board, colours, game_over_condition)
        moves == detect_all_possible_moves(board)
    IN /\ frames = <<>>
       /\ calls = Len(Opening)
       /\ reselected = NotSelected
       /\ minimax = NotSelected
       /\ IF selected = NotSelected THEN Engaged(level)
          ELSE level = skill_level /\ selected.raised = None
       /\ skill_level' = level
       /\ before' = game_state
       /\ IF Len(colours) # 2
          THEN /\ Finish(Report(NoMove, NoRating, AssertionError))
               /\ UNCHANGED <<board, colours>>
          ELSE IF searches(game_state)
          THEN /\ frames' = <<Frame(game_state, 1, <<-inf, inf>>, max_depth(level))>>
               /\ board' = frames'[1].game_state.board
               /\ colours' = frames'[1].game_state.colours
               /\ UNCHANGED <<selected, reselected, minimax>>
          ELSE /\ \E m \in choice(moves) : Finish(Report(m, NoRating, None))
               /\ UNCHANGED <<board, colours>>
       /\ UNCHANGED <<game_over_condition, move, ret, raised, events, game, calls,
                      query, found, possible_moves, copied, lifecycle, ui>>

\* the loop body of _apply for a leaf or a node at max_depth
Rate ==
    LET frame == frames[Len(frames)]
        current_rating ==
            Rating(evaluate(frame.strategy, frame.nodes[frame.each_node]), frame.depth)
    IN /\ frames # <<>>
       /\ ~loop_done(frame)
       /\ rated_here(frame, max_depth(skill_level))
       /\ frames' = [frames EXCEPT ![Len(frames)] = loop_tail(frame, current_rating, None)]
       /\ UNCHANGED <<board, colours, game_over_condition, move, ret, raised, events,
                      before, game, calls, query, found, possible_moves, copied,
                      skill_level, selected, reselected, minimax, lifecycle, ui>>

\* the loop body of _apply for any other node: the call of
\* _apply(each_node.target_game_state, depth + 1, strategy.alpha_beta)
Descend ==
    LET frame == frames[Len(frames)]
        strategy == frame.strategy
    IN /\ frames # <<>>
       /\ ~loop_done(frame)
       /\ ~rated_here(frame, max_depth(skill_level))
       /\ frames' = Append(frames,
                           Frame(frame.nodes[frame.each_node].target_game_state,
                                 frame.depth + 1, <<strategy.alpha, strategy.beta>>,
                                 max_depth(skill_level)))
       /\ UNCHANGED <<board, colours, game_over_condition, move, ret, raised, events,
                      before, game, calls, query, found, possible_moves, copied,
                      skill_level, selected, reselected, minimax, lifecycle, ui>>

\* the loop of the innermost _apply is over: it returns to the loop body of
\* its caller, the outermost to select_move
Return ==
    LET frame == frames[Len(frames)]
        caller == frames[Len(frames) - 1]
        result == returned(frame)
    IN /\ frames # <<>>
       /\ loop_done(frame)
       /\ IF Len(frames) = 1 THEN Finish(result)
          ELSE /\ frames' = [SubSeq(frames, 1, Len(frames) - 1) EXCEPT
                                ![Len(frames) - 1] =
                                    loop_tail(caller, result.rating, result.raised)]
               /\ UNCHANGED <<selected, reselected, minimax>>
       /\ UNCHANGED <<board, colours, game_over_condition, move, ret, raised, events,
                      before, game, calls, query, found, possible_moves, copied,
                      skill_level, lifecycle, ui>>

\* the opening is played before the engine is asked
OpeningMove ==
    /\ frames = <<>>
    /\ selected = NotSelected
    /\ ScriptedMove

NextAI ==
    \/ OpeningMove
    \/ \E level \in SkillLevel : SelectMove(level)
    \/ Rate
    \/ Descend
    \/ Return

SpecAI == InitLoaded /\ [][NextAI]_vars

\* the statements of a running select_move: the interpreter goes on with the
\* call until it returns or raises
Running == Rate \/ Descend \/ Return

\* weak fairness of the running call, WF_vars(Running), written out: a step of
\* Running changes frames and, by the guards of Rate, Descend and Return, is
\* enabled exactly where frames is not empty
SpecAIFair == SpecAI /\ ([]<>(frames = <<>>) \/ []<><<Running>>_vars)

(***************************************************************************)
(* The same games with, next to select_move, the search that select_move   *)
(* makes when the break is taken out of the loop of _apply: the            *)
(* depth-bounded minimax with the nodes, their order, their ratings and    *)
(* the check_optimal of _apply.                                            *)
(***************************************************************************)
\* check_optimal(rating) of a strategy whose _optimal_rating is optimal_rating
supersedes(strategy, optimal_rating, rating) ==
    check_optimal([strategy EXCEPT !.optimal_rating = optimal_rating], rating).optimal

RECURSIVE Exhaustive(_, _, _)
RECURSIVE ExhaustiveFrom(_, _, _, _)
\* the optimal move and rating of the loop of _apply over nodes[lo .. hi]
\* when no break is taken: of two ratings the later one is kept where
\* check_optimal returns True for it
ExhaustiveFrom(frame, lo, hi, max) ==
    IF lo = hi
    THEN [move |-> frame.nodes[lo].move,
          rating |-> IF is_leaf(frame.nodes[lo]) \/ frame.depth = max
                     THEN Rating(evaluate(frame.strategy, frame.nodes[lo]), frame.depth)
                     ELSE Exhaustive(frame.nodes[lo].target_game_state,
                                     frame.depth + 1, max).rating]
    ELSE LET mid == (lo + hi) \div 2
             head == ExhaustiveFrom(frame, lo, mid, max)
             tail == ExhaustiveFrom(frame, mid + 1, hi, max)
         IN IF supersedes(frame.strategy, head.rating, tail.rating) THEN tail ELSE head

\* _apply(game_state, depth, ...) without the break
Exhaustive(game_state, depth, max) ==
    ExhaustiveFrom(Frame(game_state, depth, <<-inf, inf>>, max), 1,
                   Len(detect_all_possible_moves(game_state.board)), max)

\* the report select_move makes of the result of _apply
report_of(result) == Report(result.move, result.rating, None)

MaxMinimaxMoves == 10

\* the search without the break is made on boards with few open rows and
\* columns, on the state select_move was called with
Minimax ==
    /\ frames = <<>>
    /\ Len(detect_all_possible_moves(board)) <= MaxMinimaxMoves
    /\ selected # NotSelected
    /\ selected.raised = None
    /\ searches(State(board, colours, game_over_condition))
    /\ minimax = NotSelected
    /\ minimax' = report_of(Exhaustive(before, 1, max_depth(skill_level)))
    /\ UNCHANGED <<board, colours, game_over_condition, move, ret, raised, events,
                   before, game, calls, query, found, possible_moves, copied,
                   skill_level, frames, selected, reselected, lifecycle, ui>>

\* select_move is called once
SelectMoveOnce ==
    /\ selected = NotSelected
    /\ \E level \in SkillLevel : SelectMove(level)

NextMinimax ==
    \/ OpeningMove
    \/ SelectMoveOnce
    \/ Minimax
    \/ Rate
    \/ Descend
    \/ Return

SpecMinimax == InitLoaded /\ [][NextMinimax]_vars

(***************************************************************************)
(* find_first_empty_slot as a function of the board: the boards are those  *)
(* with one row or one column occupied in an arbitrary pattern.            *)
(***************************************************************************)
LinePatterns == [Positions -> {None, BLUE}]

\* the board whose row (across = TRUE) or column at index holds the pattern
PatternBoard(across, index, pattern) ==
    [slot \in Slots |->
        IF across /\ ver_pos(slot) = index THEN pattern[hor_pos(slot)]
        ELSE IF ~across /\ hor_pos(slot) = index THEN pattern[ver_pos(slot)]
        ELSE None]

InitFind ==
    /\ \E across \in BOOLEAN, index \in Positions, pattern \in LinePatterns :
           board = PatternBoard(across, index, pattern)
    /\ game = 1
    /\ colours = Games[game].colours
    /\ game_over_condition = NotOver
    /\ move = NoMove
    /\ ret = NotOver
    /\ raised = None
    /\ events = <<>>
    /\ before = State(board, colours, game_over_condition)
    /\ calls = 0
    /\ query = NoQuery
    /\ found = NoSlot
    /\ possible_moves = Undetected
    /\ copied = NoCopy
    /\ skill_level = ADVANCED
    /\ frames = <<>>
    /\ selected = NotSelected
    /\ reselected = NotSelected
    /\ minimax = NotSelected
    /\ lifecycle = <<>>
    /\ Started

FindFirstEmptySlot(side, insert_pos) ==
    /\ query = NoQuery
    /\ query' = [side |-> side, position |-> insert_pos]
    /\ found' = find_first_empty_slot(board, side, insert_pos)
    /\ UNCHANGED <<board, colours, game_over_condition, move, ret, raised, events,
                   before, game, calls, possible_moves, copied, skill_level, frames,
                   selected, reselected, minimax, lifecycle, ui>>

NextFind == \E side \in Side, insert_pos \in Positions : FindFirstEmptySlot(side, insert_pos)

SpecFind == InitFind /\ [][NextFind]_vars

(***************************************************************************)
(* Construction, the colours setter, serialize and deserialize, called on  *)
(* games that are being played.                                            *)
(***************************************************************************)
\* Shiftago._validate_colours: the exception raised, None where it returns
validate_colours(cols) ==
    LET num_colours == Cardinality({cols[i] : i \in DOMAIN cols})
    IN IF num_colours < Len(cols) THEN "ValueError"
       ELSE IF ~(2 <= num_colours /\ num_colours <= Cardinality(Colour)) THEN "ValueError"
       ELSE None

\* ShiftagoExpress(colours=cols, board=b): the exception raised and the new
\* game, whose detector is selected by the number of colours
new_game(cols, b) ==
    IF validate_colours(cols) # None
    THEN [raised |-> validate_colours(cols), game_state |-> State(EmptyBoard, <<>>, NotOver)]
    ELSE [raised |-> None, game_state |-> State(b, cols, NotOver)]

\* the colours setter of ShiftagoExpress: _set_colours validates, replaces the
\* deque and clears the board, then the detector is selected again and the
\* game over condition is reset
set_colours(game_state, new_colours) ==
    IF validate_colours(new_colours) # None
    THEN [raised |-> validate_colours(new_colours), game_state |-> game_state]
    ELSE [raised |-> None, game_state |-> State(EmptyBoard, new_colours, NotOver)]

\* JSONEncoder.default for an object o of class cls: the symbol of a Colour,
\* the attribute error of o.colours for an object that is neither a Colour nor
\* a game, and for a game the dict of its colours and of the rows of its board
default(cls, o) ==
    IF cls = "Colour" THEN [raised |-> None, value |-> o]
    ELSE IF cls = "ShiftagoExpress"
    THEN [raised |-> None,
          value |-> [colours |-> o.colours,
                     board |-> [ver \in 1 .. NUM_SLOTS_PER_SIDE |->
                                   [hor \in 1 .. NUM_SLOTS_PER_SIDE |->
                                       o.board[Slot(hor - 1, ver - 1)]]]]]
    ELSE [raised |-> "AttributeError", value |-> None]

\* Shiftago.serialize: json.dump writes the dict default returns for the game
\* member by member; the value of 'colours' is the deque _colours, which json
\* hands to default as it is neither a list nor a tuple. The text is the
\* sequence of the tokens written to the stream.
serialize(game_state) ==
    LET dict == default("ShiftagoExpress", game_state).value
        colours_value == default("deque", dict.colours)
    IN IF colours_value.raised # None
       THEN [raised |-> colours_value.raised, text |-> <<"{", "colours", ":">>]
       ELSE [raised |-> None,
             text |-> <<"{", "colours", ":", colours_value.value, ",",
                        "board", ":", dict.board, "}">>]

\* ShiftagoDeser.deserialize: json.load of the text, then the constructor with
\* the colours and the board of the dict
deserialize(text) ==
    IF Len(text) < 9
    THEN [raised |-> "JSONDecodeError", game_state |-> State(EmptyBoard, <<>>, NotOver)]
    ELSE new_game(text[4], deserialize_board(text[8]))

\* the sequences passed as colours: of Colour members and, as Python does not
\* check the element type, of other symbols
ColourInputs ==
    {<<BLUE>>, <<BLUE, GREEN>>, <<ORANGE, BLUE>>, <<GREEN, GREEN>>,
     <<GREEN, ORANGE, BLUE>>, <<BLUE, GREEN, BLUE>>,
     <<BLUE, GREEN, ORANGE, "R">>, <<BLUE, GREEN, ORANGE, BLUE>>,
     <<BLUE, GREEN, ORANGE, "R", "Y">>}

MaxLifecycleCalls == 1

\* the calls are made on the positions the scripted openings lead to
Callable == calls >= Len(Opening) /\ Len(lifecycle) < MaxLifecycleCalls

\* the call is recorded (its name, its colours argument, the game state it
\* was made on, the exception it raised and the text in the stream it wrote or
\* read) and the game of its result, if any, is played on
Called(name, cols, exception, game_state, text) ==
    /\ lifecycle' = Append(lifecycle,
           [name |-> name, colours |-> cols,
            game_state |-> State(board, colours, game_over_condition),
            raised |-> exception, text |-> text])
    /\ board' = IF exception = None THEN game_state.board ELSE board
    /\ colours' = IF exception = None THEN game_state.colours ELSE colours
    /\ game_over_condition' = IF exception = None THEN game_state.game_over_condition
                              ELSE game_over_condition
    /\ UNCHANGED <<move, ret, raised, events, before, game, calls, query, found,
                   possible_moves, copied, skill_level, frames, selected, reselected,
                   minimax, ui>>

\* ShiftagoExpress(colours=cols): a new game replaces the one played
Construct(cols) ==
    LET res == new_game(cols, EmptyBoard)
    IN Callable /\ Called("__init__", cols, res.raised, res.game_state, <<>>)

\* game.colours = cols
SetColours(cols) ==
    LET res == set_colours(State(board, colours, game_over_condition), cols)
    IN Callable /\ Called("colours", cols, res.raised, res.game_state, <<>>)

\* game.serialize(output_stream): the game is left as it is
Serialize ==
    LET res == serialize(State(board, colours, game_over_condition))
    IN Callable /\ Called("serialize", <<>>, res.raised,
                          State(board, colours, game_over_condition), res.text)

\* ShiftagoExpress.deserialize(input_stream) on the stream the last call, a
\* serialize call, has written: the game read replaces the one played
Deserialize ==
    /\ lifecycle # <<>>
    /\ lifecycle[Len(lifecycle)].name = "serialize"
    /\ LET text == lifecycle[Len(lifecycle)].text
           res == deserialize(text)
       IN Called("deserialize", <<>>, res.raised, res.game_state, text)

NextLifecycle ==
    \/ \E m \in Moves : ApplyMove(m)
    \/ \E cols \in ColourInputs : Construct(cols)
    \/ \E cols \in ColourInputs : SetColours(cols)
    \/ Serialize
    \/ Deserialize

SpecLifecycle == Init /\ [][NextLifecycle]_vars

(***************************************************************************)
(* Vocabulary of the properties                                            *)
(***************************************************************************)
AllLines4 == get_all(4)

AllLines5 == get_all(5)

\* the catalog of the winning length configured for a colour sequence
Catalog(cols) == IF Len(cols) = 2 THEN AllLines5 ELSE AllLines4

\* colour c holds every slot of some line of the catalog
OccupiesLine(b, cols, c) ==
    \E line \in Catalog(cols) : \A i \in DOMAIN line : b[line[i]] = c

CountOf(b, c) == Cardinality({slot \in Slots : b[slot] = c})

Occupied(b) == Cardinality({slot \in Slots : b[slot] # None})

BoardSize == NUM_SLOTS_PER_SIDE * NUM_SLOTS_PER_SIDE

\* the last apply_move call returned normally
Accepted == move # NoMove /\ raised = None

\* the colour that made the last call, and the colour after it in the sequence
Mover == before.colours[1]

Upcoming == before.colours[2]

\* the slot of the line targeted by (side, pos) at distance k from the side's edge
DistSlot(side, pos, k) ==
    IF side = LEFT THEN <<k, pos>>
    ELSE IF side = RIGHT THEN <<NUM_SLOTS_PER_SIDE - 1 - k, pos>>
    ELSE IF side = TOP THEN <<pos, k>>
    ELSE <<pos, NUM_SLOTS_PER_SIDE - 1 - k>>

TargetLine(side, pos) == {DistSlot(side, pos, k) : k \in Positions}

EmptyDistances(b, side, pos) == {k \in Positions : b[DistSlot(side, pos, k)] = None}

\* distance from the side's edge of the nearest empty slot of the targeted line
Gap(b, side, pos) ==
    CHOOSE k \in EmptyDistances(b, side, pos) :
        \A j \in EmptyDistances(b, side, pos) : k <= j

(***************************************************************************)
(* C1: after a legal move by the colour to move c that leaves c on every   *)
(* slot of a line of the configured length, apply_move returns and stores  *)
(* GameOverCondition(winner = c), also when the move fills the last empty  *)
(* slot or leaves the next colour with 22 marbles on the board.            *)
(***************************************************************************)
C1_WinTakesPrecedence ==
    (Accepted /\ OccupiesLine(board, before.colours, Mover))
        => /\ ret = GameOverCondition(Mover)
           /\ game_over_condition = GameOverCondition(Mover)

\* a win by the move that fills the 49th slot
C1_WinOnLastSlot ==
    /\ Accepted
    /\ OccupiesLine(board, before.colours, Mover)
    /\ Occupied(board) = BoardSize
    /\ ret = GameOverCondition(Mover)

\* a win by the move after which the next colour has 22 marbles on the board
C1_WinAtExhaustion ==
    /\ Accepted
    /\ OccupiesLine(board, before.colours, Mover)
    /\ CountOf(board, Upcoming) = NUM_MARBLES_PER_COLOUR
    /\ ret = GameOverCondition(Mover)

(***************************************************************************)
(* C2: in every state reached from the empty board by legal moves, a       *)
(* colour that occupies all slots of a winning line has won: the game is   *)
(* over and the winner is that colour, whoever's move produced the line.   *)
(***************************************************************************)
C2_AnyLineWins ==
    \A i \in DOMAIN colours :
        OccupiesLine(board, colours, colours[i])
            => game_over_condition = GameOverCondition(colours[i])

\* the colour that made the last successful move: the head of the sequence
\* once the game is over, its tail while the game goes on
LastMover ==
    IF game_over_condition.over THEN colours[1] ELSE colours[Len(colours)]

\* C2 as amended: in every state reached from the empty board by legal
\* moves, if the colour that made the last move occupies all slots of a
\* winning line, the game is over and that colour is the winner.
C2_LineOfLastMoverWins ==
    \A i \in DOMAIN colours :
        (OccupiesLine(board, colours, colours[i]) /\ colours[i] = LastMover)
            => game_over_condition = GameOverCondition(colours[i])

\* the mover completed a line of its own and, by the shift, one of the opponent
C2_TwoColoursHoldLines ==
    /\ Accepted
    /\ OccupiesLine(board, colours, LastMover)
    /\ \E i \in DOMAIN colours :
           colours[i] # LastMover /\ OccupiesLine(board, colours, colours[i])
    /\ game_over_condition = GameOverCondition(LastMover)

(***************************************************************************)
(* C3: after a legal move that leaves the mover without a winning line and *)
(* the board with empty slots, apply_move returns a draw iff the colour    *)
(* that would move next has 22 marbles on the board; the 22 marbles of the *)
(* colour that just moved do not end the game.                             *)
(***************************************************************************)
C3_ExhaustionOfUpcomingColour ==
    (/\ Accepted
     /\ ~OccupiesLine(board, before.colours, Mover)
     /\ Occupied(board) < BoardSize)
        => /\ CountOf(board, Upcoming) = NUM_MARBLES_PER_COLOUR
                => ret = GameOverCondition(None)
           /\ CountOf(board, Upcoming) # NUM_MARBLES_PER_COLOUR
                => ret = NotOver

\* a draw because the next colour has no marble left, with slots still empty
C3_DrawByExhaustion ==
    /\ Accepted
    /\ ~OccupiesLine(board, before.colours, Mover)
    /\ Occupied(board) < BoardSize
    /\ CountOf(board, Upcoming) = NUM_MARBLES_PER_COLOUR
    /\ ret = GameOverCondition(None)

\* the mover placed its 22nd marble and the game goes on
C3_MoverExhaustedGameGoesOn ==
    /\ Accepted
    /\ CountOf(board, Mover) = NUM_MARBLES_PER_COLOUR
    /\ ret = NotOver

(***************************************************************************)
(* C4: after a legal move that leaves the mover without a winning line and *)
(* all 49 slots occupied, apply_move returns a draw.                       *)
(***************************************************************************)
C4_FullBoardIsDraw ==
    (/\ Accepted
     /\ ~OccupiesLine(board, before.colours, Mover)
     /\ Occupied(board) = BoardSize)
        => /\ ret = GameOverCondition(None)
           /\ game_over_condition = GameOverCondition(None)

\* a draw on the full board with more than 22 marbles of one colour and
\* 22 of the next colour
C4_DrawOnFullBoard ==
    /\ Accepted
    /\ ~OccupiesLine(board, before.colours, Mover)
    /\ Occupied(board) = BoardSize
    /\ Occupied(before.board) = BoardSize - 1
    /\ CountOf(board, Mover) > NUM_MARBLES_PER_COLOUR
    /\ CountOf(board, Upcoming) = NUM_MARBLES_PER_COLOUR
    /\ ret = GameOverCondition(None)

\* a draw on the board filled by play from the empty board
C4_DrawOnBoardFilledByPlay ==
    /\ Accepted
    /\ game \in Played
    /\ ~OccupiesLine(board, before.colours, Mover)
    /\ Occupied(board) = BoardSize
    /\ ret = GameOverCondition(None)

(***************************************************************************)
(* C5: the colour sequence is always a rotation of the initial sequence;   *)
(* a non-terminal apply_move returns None and moves the mover from the     *)
(* head to the tail, a terminal apply_move leaves the sequence as it was.  *)
(***************************************************************************)
RotatedBy(cols, k) == [i \in 1 .. Len(cols) |-> cols[((i - 1 + k) % Len(cols)) + 1]]

C5_ColourRotation ==
    /\ \E k \in 0 .. Len(colours) - 1 : colours = RotatedBy(Games[game].colours, k)
    /\ Accepted =>
        /\ game_over_condition = ret
        /\ ret = NotOver =>
              /\ colours = RotatedBy(before.colours, 1)
              /\ colours[Len(colours)] = Mover
              /\ colours[1] = Upcoming
        /\ ret # NotOver => colours = before.colours

\* a non-terminal move of three colours, where the two rotations differ
C5_RotatedThreeColours ==
    /\ Accepted
    /\ ret = NotOver
    /\ Len(colours) = 3
    /\ calls >= 2

\* a terminal move: the mover stays at the head
C5_TerminalKeepsOrder ==
    /\ Accepted
    /\ ret # NotOver
    /\ colours = before.colours

(***************************************************************************)
(* C6: in every state reached from the empty board by legal moves of 2 or  *)
(* 3 colours at most 49 slots are occupied and no colour occupies more     *)
(* than 22 slots.                                                          *)
(***************************************************************************)
C6_SupplyBounds ==
    /\ count_occupied_slots(board) <= BoardSize
    /\ Occupied(board) <= BoardSize
    /\ \A c \in Colour : CountOf(board, c) <= NUM_MARBLES_PER_COLOUR
    /\ \A i \in DOMAIN colours :
           count_slots_per_colour(board, colours)[colours[i]] <= NUM_MARBLES_PER_COLOUR

\* both colours have placed all their marbles
C6_AllMarblesPlaced ==
    /\ Len(colours) = 2
    /\ \A i \in DOMAIN colours : CountOf(board, colours[i]) = NUM_MARBLES_PER_COLOUR

(***************************************************************************)
(* C7: a legal Move(side, pos) whose line has its nearest empty slot at    *)
(* distance d from the edge moves the marbles at distances 0..d-1 to       *)
(* distances 1..d in the same order, puts the mover's colour on the edge   *)
(* slot, leaves the slots at distance > d and all other rows and columns   *)
(* unchanged, and occupies exactly one slot more.                          *)
(***************************************************************************)
C7_InsertionWithShift ==
    Accepted =>
        LET side == move.side
            pos == move.position
            d == Gap(before.board, side, pos)
        IN /\ \A k \in 0 .. d - 1 :
                  board[DistSlot(side, pos, k + 1)] = before.board[DistSlot(side, pos, k)]
           /\ board[DistSlot(side, pos, 0)] = Mover
           /\ \A k \in d + 1 .. NUM_SLOTS_PER_SIDE - 1 :
                  board[DistSlot(side, pos, k)] = before.board[DistSlot(side, pos, k)]
           /\ \A slot \in Slots \ TargetLine(side, pos) : board[slot] = before.board[slot]
           /\ Occupied(board) = Occupied(before.board) + 1

\* three or more marbles of both colours were pushed towards a gap that has
\* marbles behind it
C7_PushedTowardsGap ==
    /\ Accepted
    /\ LET side == move.side
           pos == move.position
           d == Gap(before.board, side, pos)
       IN /\ d >= 3
          /\ \E j, k \in 0 .. d - 1 :
                 before.board[DistSlot(side, pos, j)] # before.board[DistSlot(side, pos, k)]
          /\ \E k \in d + 1 .. NUM_SLOTS_PER_SIDE - 1 :
                 before.board[DistSlot(side, pos, k)] # None

(***************************************************************************)
(* C8: a successful apply_move(Move(side, pos)) sends the observer one     *)
(* 'shifted' event per displaced marble, with the marble's slot before the *)
(* shift and direction side.opposite (slot.neighbour(direction) is where   *)
(* the marble is afterwards), from the marble farthest from the edge to    *)
(* the marble on the edge, and then one 'inserted' event for the edge slot *)
(* as the last event; a move into an empty edge slot sends that one only.  *)
(***************************************************************************)
C8_ObserverEvents ==
    Accepted =>
        LET side == move.side
            pos == move.position
            d == Gap(before.board, side, pos)
        IN /\ Len(events) = d + 1
           /\ \A i \in 1 .. d :
                  /\ events[i].kind = "shifted"
                  /\ events[i].slot = DistSlot(side, pos, d - i)
                  /\ events[i].direction = opposite(side)
                  /\ before.board[events[i].slot] # None
                  /\ neighbour(events[i].slot, events[i].direction)
                         = DistSlot(side, pos, d - i + 1)
                  /\ board[neighbour(events[i].slot, events[i].direction)]
                         = before.board[events[i].slot]
           /\ events[d + 1].kind = "inserted"
           /\ events[d + 1].slot = DistSlot(side, pos, 0)
           /\ before.board[DistSlot(side, pos, 0)] = None => Len(events) = 1

\* a move that displaced three marbles or more
C8_SeveralShifts ==
    /\ Accepted
    /\ Len(events) >= 4
    /\ events[1].kind = "shifted"

\* a move into an empty edge slot
C8_InsertedOnly ==
    /\ Accepted
    /\ before.board[DistSlot(move.side, move.position, 0)] = None
    /\ events = <<Inserted(DistSlot(move.side, move.position, 0))>>

(***************************************************************************)
(* C9: find_first_empty_slot(side, insert_pos) scans the targeted line     *)
(* from the edge opposite to side towards side and returns the first empty *)
(* slot it meets; it returns None iff the line has no empty slot.          *)
(***************************************************************************)
Asked == query # NoQuery

\* the first empty slot met on the line of (side, pos) by a scan that starts
\* at the edge of `from`; NoSlot when the line is full
FirstEmptyScanning(b, from, pos) ==
    IF EmptyDistances(b, from, pos) = {} THEN NoSlot
    ELSE DistSlot(from, pos, Gap(b, from, pos))

LineIsFull(b, side, pos) == \A slot \in TargetLine(side, pos) : b[slot] # None

C9_ScansFromOppositeEdge ==
    Asked =>
        /\ found = FirstEmptyScanning(board, opposite(query.side), query.position)
        /\ found = NoSlot <=> LineIsFull(board, query.side, query.position)

\* C9 as amended: find_first_empty_slot(side, insert_pos) scans the targeted
\* line from the edge of side towards the opposite edge and returns the
\* first empty slot it meets; it returns None iff the line has no empty slot.
C9_ScansFromInsertionEdge ==
    Asked =>
        /\ found = FirstEmptyScanning(board, query.side, query.position)
        /\ found = NoSlot <=> LineIsFull(board, query.side, query.position)

\* the two scan directions meet different empty slots
C9_ScanDirectionMatters ==
    /\ Asked
    /\ found # NoSlot
    /\ board[DistSlot(query.side, query.position, 0)] # None
    /\ found # FirstEmptyScanning(board, opposite(query.side), query.position)

(***************************************************************************)
(* C10: find_first_empty_slot(side, pos) returns an empty slot of the      *)
(* targeted line with every slot between the side's edge (inclusive) and   *)
(* the returned slot (exclusive) occupied; TOP on a column with rows 0 and *)
(* 1 filled returns row 2 and BOTTOM on it with row 6 empty returns row 6; *)
(* on a line with exactly one empty slot both opposite sides return that   *)
(* slot, and both return None iff the line is full.                        *)
(***************************************************************************)
C10_NearestEmptySlot ==
    Asked =>
        LET side == query.side
            pos == query.position
            other == find_first_empty_slot(board, opposite(side), pos)
        IN /\ found # NoSlot =>
                 \E d \in Positions :
                     /\ found = DistSlot(side, pos, d)
                     /\ board[found] = None
                     /\ \A k \in 0 .. d - 1 : board[DistSlot(side, pos, k)] # None
           /\ Cardinality(EmptyDistances(board, side, pos)) = 1 =>
                 /\ found = other
                 /\ found \in TargetLine(side, pos) /\ board[found] = None
           /\ found = NoSlot <=> LineIsFull(board, side, pos)
           /\ other = NoSlot <=> LineIsFull(board, side, pos)
           /\ (/\ side = TOP
               /\ board[<<pos, 0>>] # None /\ board[<<pos, 1>>] # None
               /\ board[<<pos, 2>>] = None) => found = <<pos, 2>>
           /\ (side = BOTTOM /\ board[<<pos, 6>>] = None) => found = <<pos, 6>>

\* the nearest empty slot lies behind two marbles or more and the line has
\* another empty slot farther from the edge
C10_NearestOfSeveral ==
    /\ Asked
    /\ found # NoSlot
    /\ \E d \in 2 .. NUM_SLOTS_PER_SIDE - 1 :
           /\ found = DistSlot(query.side, query.position, d)
           /\ \E k \in d + 1 .. NUM_SLOTS_PER_SIDE - 1 :
                  board[DistSlot(query.side, query.position, k)] = None

(***************************************************************************)
(* C11: detect_all_possible_moves returns Move(side, pos) iff the row or   *)
(* column targeted by (side, pos) has an empty slot; an open line          *)
(* contributes its two opposite-side moves, a full line none, no move is   *)
(* listed twice, and the length of the list is twice the number of open    *)
(* rows and columns.                                                       *)
(***************************************************************************)
Detected == possible_moves # Undetected

Listed(m) == \E i \in DOMAIN possible_moves : possible_moves[i] = m

\* the rows and columns with an empty slot, each named by its LEFT or TOP move
OpenLines(b) ==
    {line \in {LEFT, TOP} \X Positions : ~LineIsFull(b, line[1], line[2])}

C11_MovesOfOpenLines ==
    Detected =>
        /\ \A m \in Moves : Listed(m) <=> ~LineIsFull(board, m.side, m.position)
        /\ \A m \in Moves : Listed(m) <=> Listed(Move(opposite(m.side), m.position))
        /\ \A i, j \in DOMAIN possible_moves :
               i # j => possible_moves[i] # possible_moves[j]
        /\ Len(possible_moves) = 2 * Cardinality(OpenLines(board))

\* the call was made on a board with full lines and with open ones
C11_SomeLinesFull ==
    /\ Detected
    /\ \E m \in Moves : LineIsFull(board, m.side, m.position)
    /\ \E m \in Moves : Listed(m)

(***************************************************************************)
(* C12: once game_over_condition is set, an apply_move call raises         *)
(* AssertionError, leaves the board, the colour sequence and               *)
(* game_over_condition as they were and sends nothing to the observer.     *)
(***************************************************************************)
Unchanged ==
    /\ board = before.board
    /\ colours = before.colours
    /\ game_over_condition = before.game_over_condition

C12_TerminalStateRejects ==
    (move # NoMove /\ before.game_over_condition # NotOver) =>
        /\ raised = AssertionError
        /\ Unchanged
        /\ events = <<>>

\* a move into a line with an empty slot was submitted to a finished game
C12_MoveAfterGameOver ==
    /\ move # NoMove
    /\ before.game_over_condition # NotOver
    /\ ~LineIsFull(before.board, move.side, move.position)
    /\ raised = AssertionError

(***************************************************************************)
(* C13: an apply_move call whose move targets a row or column without an   *)
(* empty slot raises AssertionError before anything is changed: the board, *)
(* the colour sequence and game_over_condition are as they were and no     *)
(* 'shifted' or 'inserted' event has been sent.                            *)
(***************************************************************************)
C13_FullLineRejects ==
    (move # NoMove /\ LineIsFull(before.board, move.side, move.position)) =>
        /\ raised = AssertionError
        /\ Unchanged
        /\ events = <<>>

\* a move into a full line was submitted to a game that is not over
C13_MoveIntoFullLine ==
    /\ move # NoMove
    /\ before.game_over_condition = NotOver
    /\ LineIsFull(before.board, move.side, move.position)
    /\ raised = AssertionError

(***************************************************************************)
(* C14: copy.copy yields an instance with the same colour sequence, colour *)
(* to move, board, winning-line length and game_over_condition; after it,  *)
(* apply_move calls on the copy leave the board, the colour sequence and   *)
(* game_over_condition of the original unchanged, and calls on the         *)
(* original leave the copy unchanged.                                      *)
(***************************************************************************)
Original == State(board, colours, game_over_condition)

C14_OriginalMovedAhead ==
    /\ copied # NoCopy
    /\ count_occupied_slots(copied.board) < count_occupied_slots(board)

(***************************************************************************)
(* C15: select_move leaves the state it is given as it was, at every skill *)
(* level: while the call runs and after it has returned or raised, the     *)
(* board, the colour sequence and game_over_condition of the game are      *)
(* those the call was made with.                                           *)
(***************************************************************************)
C15_SelectMoveLeavesState ==
    (frames # <<>> \/ selected # NotSelected) => Original = before

C15_DeepSearchReturned ==
    /\ reselected # NotSelected
    /\ skill_level = GRANDMASTER
    /\ selected.raised = None
    /\ selected.rating.depth = 2 + GRANDMASTER

(***************************************************************************)
(* C16: on a two-colour state whose game is not over select_move returns a *)
(* move into a row or column with an empty slot; with at most one slot     *)
(* occupied it runs no search and every such move is a possible result of  *)
(* the call, at every skill level.                                         *)
(***************************************************************************)
Legal(b, m) == m \in Moves /\ ~LineIsFull(b, m.side, m.position)

C16_SelectsLegalMove ==
    /\ (selected # NotSelected /\ Len(before.colours) = 2
            /\ before.game_over_condition = NotOver)
           => /\ selected.raised = None
              /\ Legal(before.board, selected.move)
              /\ Occupied(before.board) <= 1 => selected.rating = NoRating
    /\ (frames = <<>> /\ selected = NotSelected /\ calls = Len(Opening)
            /\ Len(colours) = 2 /\ Occupied(board) <= 1)
           => \A level \in SkillLevel, m \in Moves :
                  Legal(board, m)
                      => ENABLED (SelectMove(level) /\ frames' = <<>>
                                      /\ selected' = Report(m, NoRating, None))

C16_TwoMovesDrawn ==
    /\ reselected # NotSelected
    /\ Occupied(before.board) = 0
    /\ selected.move = Move(TOP, 0)
    /\ reselected.move = Move(RIGHT, NUM_SLOTS_PER_SIDE - 1)

CompletesLine(game_state, m) ==
    /\ Legal(game_state.board, m)
    /\ OccupiesLine(insert_marble(game_state.board, game_state.colours, m.side,
                                  m.position).board,
                    game_state.colours, game_state.colours[1])

WinInOne(game_state) ==
    /\ Len(game_state.colours) = 2
    /\ game_state.game_over_condition = NotOver
    /\ Occupied(game_state.board) > 1
    /\ \E m \in Moves : CompletesLine(game_state, m)

C18_TakesImmediateWin ==
    (selected # NotSelected /\ WinInOne(before))
        => selected.raised = None /\ CompletesLine(before, selected.move)

C18_WinAmongOtherMoves ==
    /\ selected # NotSelected
    /\ frames = <<>>
    /\ WinInOne(before)
    /\ skill_level = GRANDMASTER
    /\ \E m \in Moves : Legal(before.board, m) /\ ~CompletesLine(before, m)
    /\ ~CompletesLine(before, detect_all_possible_moves(before.board)[1])

(***************************************************************************)
(* C19: the move and the rating (value and depth) returned by the search   *)
(* of select_move are those returned by the same search with the break of  *)
(* the loop disabled, at every skill level.                                *)
(***************************************************************************)
C19_PruningKeepsMinimaxResult ==
    minimax # NotSelected
        => minimax.move = selected.move /\ minimax.rating = selected.rating

(***************************************************************************)
(* C20: _max_depth is 2 + skill level (2, 3, 4, 5); the activations of     *)
(* _apply are at plies 1, 2, ... in the order of their calls, those at odd *)
(* plies maximizing and those at even plies minimizing; no activation and  *)
(* no rating is at a ply greater than 2 + skill level; a select_move call  *)
(* that has started its search comes to its end.                           *)
(***************************************************************************)
PliesAlternate ==
    \A k \in DOMAIN frames :
        /\ frames[k].depth = k
        /\ frames[k].strategy.is_maximizing = (k % 2 = 1)
        /\ k <= 2 + skill_level

RatedWithinDepth ==
    \A report \in {selected, reselected} :
        report.rating.depth <= 2 + skill_level

C20_DepthBoundAndTermination ==
    /\ []((max_depth(ROOKIE) = 2 /\ max_depth(ADVANCED) = 3 /\ max_depth(EXPERT) = 4
              /\ max_depth(GRANDMASTER) = 5)
          /\ PliesAlternate /\ RatedWithinDepth)
    /\ (frames # <<>> ~> frames = <<>>)

C20_DeepestPly ==
    /\ Len(frames) = 2 + GRANDMASTER
    /\ skill_level = GRANDMASTER
    /\ ~loop_done(frames[Len(frames)])

(***************************************************************************)
(* C21: while the state select_move is called with has fewer than 6        *)
(* occupied slots the search stays at ply 1, at every skill level: there   *)
(* is no activation of _apply below the first and no rating of a deeper    *)
(* ply.                                                                    *)
(***************************************************************************)
C21_NearEmptyBoardSearchesOnePly ==
    count_occupied_slots(before.board) < 6
        => /\ Len(frames) <= 1
           /\ \A report \in {selected, reselected} : report.rating.depth <= 1

(***************************************************************************)
(* C22: the loop over the nodes of an activation of _apply examines no     *)
(* node once alpha >= beta holds or, at a maximizer, alpha is +1 or, at a  *)
(* minimizer, beta is -1.                                                  *)
(***************************************************************************)
ScanStops(strategy) ==
    \/ strategy.alpha >= strategy.beta
    \/ IF strategy.is_maximizing THEN strategy.alpha = RatingUnit
       ELSE strategy.beta = -RatingUnit

C22_NoSiblingAfterCutoff ==
    \A k \in DOMAIN frames :
        ~loop_done(frames[k]) => ~ScanStops(frames[k].strategy)

(***************************************************************************)
(* C23: of the nodes an activation of _apply has rated, the move and       *)
(* rating it retains are those of a node with the best value (greatest at  *)
(* a maximizer, least at a minimizer); among the nodes of that value, one  *)
(* of the smallest depth if the value is a winning one for the player of   *)
(* the activation (> 0 at a maximizer, < 0 at a minimizer) and one of the  *)
(* greatest depth otherwise; among those equal in value and depth, the     *)
(* first one rated.                                                        *)
(***************************************************************************)
BestValue(frame) ==
    CHOOSE v \in {frame.rated[i].rating.value : i \in DOMAIN frame.rated} :
        \A i \in DOMAIN frame.rated :
            IF frame.strategy.is_maximizing THEN frame.rated[i].rating.value <= v
            ELSE frame.rated[i].rating.value >= v

OfBestValue(frame) ==
    {i \in DOMAIN frame.rated : frame.rated[i].rating.value = BestValue(frame)}

WinningValue(frame) ==
    IF frame.strategy.is_maximizing THEN BestValue(frame) > 0 ELSE BestValue(frame) < 0

Preferred(frame) ==
    {i \in OfBestValue(frame) :
        \A j \in OfBestValue(frame) :
            IF WinningValue(frame)
            THEN frame.rated[i].rating.depth <= frame.rated[j].rating.depth
            ELSE frame.rated[i].rating.depth >= frame.rated[j].rating.depth}

Retained(frame) ==
    frame.rated[CHOOSE i \in Preferred(frame) : \A j \in Preferred(frame) : i <= j]

C23_TieBreakByDepth ==
    \A k \in DOMAIN frames :
        frames[k].rated # <<>>
            => /\ frames[k].optimal_move = Retained(frames[k]).move
               /\ frames[k].strategy.optimal_rating = Retained(frames[k]).rating

\* a later node of the same winning value and a smaller depth has replaced
\* the retained one
C23_ShallowerWinReplaced ==
    \E k \in DOMAIN frames :
        \E i, j \in DOMAIN frames[k].rated :
            /\ i < j
            /\ frames[k].rated[i].rating.value = BestValue(frames[k])
            /\ frames[k].rated[j].rating.value = BestValue(frames[k])
            /\ WinningValue(frames[k])
            /\ frames[k].rated[j].rating.depth < frames[k].rated[i].rating.depth
            /\ frames[k].optimal_move = frames[k].rated[j].move

(***************************************************************************)
(* C24: in a two-colour game, evaluate of a node made by a move of colour  *)
(* m at a ply of win rating w (+1 at a maximizer, -1 at a minimizer) is w  *)
(* if the move ended the game with m as winner, 0 if it ended it in a      *)
(* draw, and otherwise w times the sum over k = 2 .. L of                  *)
(* (n_m(k) - n_o(k)) * 10^-(L - k + 1), n_c(k) being the number of lines   *)
(* of the catalog with exactly k marbles of colour c, o the other colour   *)
(* and m the second colour of the node's colour sequence.                  *)
(***************************************************************************)
\* the number of lines of the catalog on which colour c holds exactly k slots
LinesHolding(game_state, c, k) ==
    Cardinality({line \in Catalog(game_state.colours) :
        Cardinality({i \in DOMAIN line : game_state.board[line[i]] = c}) = k})

Weighted(game_state, m, o) ==
    LET L == IF Len(game_state.colours) = 2 THEN 5 ELSE 4
    IN SumOver([k \in 2 .. L |->
                   (LinesHolding(game_state, m, k) - LinesHolding(game_state, o, k))
                       * (RatingUnit \div 10 ^ (L - k + 1))],
               2 .. L)

\* value is the rating the claim gives to node, a node of the activation frame
EvaluatesTo(frame, node, value) ==
    LET w == IF frame.strategy.is_maximizing THEN 1 ELSE -1
        m == frame.game_state.colours[1]
        o == frame.game_state.colours[2]
    IN IF node.game_over_condition # NotOver
       THEN IF node.game_over_condition.winner = None THEN value = 0
            ELSE node.game_over_condition.winner = m /\ value = w * RatingUnit
       ELSE /\ node.target_game_state.colours[2] = m
            /\ value = w * Weighted(node.target_game_state, m, o)

\* checked of every node of an activation when its loop starts
C24_EvaluateFormula ==
    frames # <<>> /\ frames[Len(frames)].rated = <<>>
        => \A n \in DOMAIN frames[Len(frames)].nodes :
               EvaluatesTo(frames[Len(frames)], frames[Len(frames)].nodes[n],
                           evaluate(frames[Len(frames)].strategy,
                                    frames[Len(frames)].nodes[n]))

\* a minimizer ply with a node won by its mover and a node of a rating that
\* is not 0 with the game going on
C24_WonAndWeightedNodes ==
    /\ frames # <<>>
    /\ frames[Len(frames)].rated = <<>>
    /\ ~frames[Len(frames)].strategy.is_maximizing
    /\ \E n1, n2 \in DOMAIN frames[Len(frames)].nodes :
           /\ frames[Len(frames)].nodes[n1].game_over_condition # NotOver
           /\ frames[Len(frames)].nodes[n1].game_over_condition.winner # None
           /\ frames[Len(frames)].nodes[n2].game_over_condition = NotOver
           /\ evaluate(frames[Len(frames)].strategy, frames[Len(frames)].nodes[n2]) # 0

(***************************************************************************)
(* C25: get_all(5) is the set of the 21 horizontal, 21 vertical, 9         *)
(* ascending and 9 descending lines of 5 slots of the board, 60 lines,     *)
(* each of 5 distinct slots of the board that follow one another by the    *)
(* unit step of the orientation; a second call returns the same set.       *)
(***************************************************************************)
UnitStep(orientation) ==
    IF orientation = HORIZONTAL THEN <<1, 0>>
    ELSE IF orientation = VERTICAL THEN <<0, 1>>
    ELSE IF orientation = ASCENDING THEN <<1, -1>>
    ELSE <<1, 1>>

\* the lines of n slots of the board along an orientation
LinesAlong(orientation, n) ==
    LET step == UnitStep(orientation)
        from(h, v) == [i \in 1 .. n |-> <<h + (i - 1) * step[1], v + (i - 1) * step[2]>>]
    IN {line \in {from(h, v) : h \in Positions, v \in Positions} :
           \A i \in 1 .. n : line[i] \in Slots}

\* the catalog of the winning length of a state
CatalogIn(game_state) == get_all(winning_line_length(game_state))

\* checked of the catalog of every two-colour game, whose winning length is 5
C25_CatalogOfFive ==
    Len(colours) = 2
        => /\ CatalogIn(State(board, colours, game_over_condition))
                  = UNION {LinesAlong(orientation, 5) :
                              orientation \in {HORIZONTAL, VERTICAL, ASCENDING, DESCENDING}}
           /\ Cardinality(LinesAlong(HORIZONTAL, 5)) = 21
           /\ Cardinality(LinesAlong(VERTICAL, 5)) = 21
           /\ Cardinality(LinesAlong(ASCENDING, 5)) = 9
           /\ Cardinality(LinesAlong(DESCENDING, 5)) = 9
           /\ Cardinality(CatalogIn(State(board, colours, game_over_condition))) = 60
           /\ \A line \in CatalogIn(State(board, colours, game_over_condition)) :
                  Cardinality(slots_of(line)) = 5
           /\ CatalogIn(before) = CatalogIn(State(board, colours, game_over_condition))

\* a two-colour game is won on a line of the catalog
C25_WonOnLineOfFive ==
    /\ Len(colours) = 2
    /\ game_over_condition # NotOver
    /\ \E line \in get_all(5) : \A i \in DOMAIN line : board[line[i]] = game_over_condition.winner

(***************************************************************************)
(* C26: a line of the catalog is in the set the detector keeps for a slot  *)
(* exactly if the slot is one of the slots of the line, for both winning   *)
(* lengths; for length 5 the sets of the slots (0,0), (0,3), (3,3) and     *)
(* (6,2) have 3, 4, 12 and 5 lines.                                        *)
(***************************************************************************)
InverseOf(slot_to_lines, lines) ==
    \A slot \in Slots :
        /\ slot_to_lines[slot] \subseteq lines
        /\ \A line \in lines : line \in slot_to_lines[slot] <=> slot \in slots_of(line)

\* checked of the detector of every game, and of the detector of length 5
C26_IndexIsInverseOfCatalog ==
    /\ InverseOf(select_winning_lines_detector(colours).slot_to_lines, Catalog(colours))
    /\ Len(colours) = 2
           => LET slot_to_lines == select_winning_lines_detector(colours).slot_to_lines
              IN /\ Cardinality(slot_to_lines[Slot(0, 0)]) = 3
                 /\ Cardinality(slot_to_lines[Slot(0, 3)]) = 4
                 /\ Cardinality(slot_to_lines[Slot(3, 3)]) = 12
                 /\ Cardinality(slot_to_lines[Slot(6, 2)]) = 5

\* a two-colour game is won on one of the lines kept for the corner slot (0, 0)
C26_WonThroughCorner ==
    /\ Len(colours) = 2
    /\ game_over_condition # NotOver
    /\ \E line \in select_winning_lines_detector(colours).slot_to_lines[Slot(0, 0)] :
           \A i \in DOMAIN line : board[line[i]] = game_over_condition.winner


(***************************************************************************)
(* C27: for every colour, has_winning_line is true exactly if some line of *)
(* the catalog of the configured length holds the colour in all its slots, *)
(* winning_lines_of is exactly the set of those lines, and the number the  *)
(* index gives for a line is the number a scan of the line's slots gives.  *)
(***************************************************************************)
\* the lines of the catalog found full of colour c by scanning every line
FullLines(b, cols, c) ==
    {line \in Catalog(cols) : \A i \in DOMAIN line : b[line[i]] = c}

\* the number of slots of a line that hold colour c, by scanning the line
ScanCount(b, line, c) == Cardinality({i \in DOMAIN line : b[line[i]] = c})

C27_DetectionAgreesWithScan ==
    \A c \in Colour :
        LET detector == select_winning_lines_detector(colours)
            match_degrees == build_match_degrees(detector, board, c)
        IN /\ has_winning_line(detector, board, c) <=> FullLines(board, colours, c) # {}
           /\ winning_lines_of(detector, board, c) = FullLines(board, colours, c)
           /\ \A line \in Catalog(colours) :
                  IF line \in DOMAIN match_degrees
                  THEN match_degrees[line] = ScanCount(board, line, c)
                  ELSE ScanCount(board, line, c) = 0

\* a game is over with a winner whose winning lines are reported, while
\* another colour holds lines only in part
C27_WinningLinesReported ==
    /\ game_over_condition.over
    /\ game_over_condition.winner \in Colour
    /\ winning_lines_of(select_winning_lines_detector(colours), board,
                        game_over_condition.winner) # {}
    /\ \E c \in Colour \ {game_over_condition.winner} :
           /\ ~has_winning_line(select_winning_lines_detector(colours), board, c)
           /\ \E line \in Catalog(colours) : ScanCount(board, line, c) >= 2


(***************************************************************************)
(* C28: for every game state on which serialize is called, the call writes *)
(* a snapshot from which deserialize reconstructs the state: the same      *)
(* sequence of colours, the same colour at every slot, and further moves   *)
(* accepted exactly if they were accepted before (a finished game remains  *)
(* finished).                                                              *)
(***************************************************************************)
C28_SnapshotRoundTrip ==
    \A k \in DOMAIN lifecycle :
        lifecycle[k].name = "serialize" =>
            LET read == deserialize(lifecycle[k].text)
                written == lifecycle[k].game_state
            IN /\ lifecycle[k].raised = None
               /\ read.raised = None
               /\ read.game_state.colours = written.colours
               /\ read.game_state.board = written.board
               /\ \A m \in Moves :
                      apply_move(read.game_state.board, read.game_state.colours,
                                 read.game_state.game_over_condition, m).raised
                      = apply_move(written.board, written.colours,
                                   written.game_over_condition, m).raised

(***************************************************************************)
(* C29: the constructor and the colours setter succeed for every sequence  *)
(* of 2, 3 or 4 distinct colours and raise for a sequence with duplicates  *)
(* or with fewer than 2 or more than 4 colours; the winning line length of *)
(* a game is 5 with 2 colours and 4 with 3 or 4 colours.                   *)
(***************************************************************************)
Distinct(cols) == Cardinality({cols[i] : i \in DOMAIN cols}) = Len(cols)

C29_ConstructionByColourCount ==
    /\ \A k \in DOMAIN lifecycle :
           lifecycle[k].name \in {"__init__", "colours"} =>
               LET cols == lifecycle[k].colours
               IN IF Distinct(cols) /\ 2 <= Len(cols) /\ Len(cols) <= 4
                  THEN lifecycle[k].raised = None
                  ELSE lifecycle[k].raised = "ValueError"
    /\ winning_line_length(State(board, colours, game_over_condition))
           = IF Len(colours) = 2 THEN 5 ELSE 4


C38_NonTerminalHasMove ==
    game_over_condition = NotOver =>
        /\ Len(detect_all_possible_moves(board)) > 0
        /\ Detected => Len(possible_moves) > 0

\* the call was made in a game that is not over with two slots left empty
C38_MovesNearTheEnd ==
    /\ Detected
    /\ game_over_condition = NotOver
    /\ count_occupied_slots(board) = NUM_SLOTS_PER_SIDE * NUM_SLOTS_PER_SIDE - 2
    /\ Len(possible_moves) > 0

(***************************************************************************)
(* C39: a successful apply_move raises the number of occupied slots by     *)
(* one, the count of the colour that moved by one and leaves the counts of *)
(* the other colours as they were; a game started on the empty board in    *)
(* which game_over_condition is not set has fewer than 49 marbles on the   *)
(* board, fewer than 44 when two colours play, so that it is over after at *)
(* most 49, respectively 44, moves.                                        *)
(***************************************************************************)
C39_OneMarblePerMove ==
    /\ count_occupied_slots(board) = calls
    /\ (move # NoMove /\ raised = None) =>
           LET old == count_slots_per_colour(before.board, before.colours)
               new == count_slots_per_colour(board, before.colours)
           IN /\ count_occupied_slots(board) = count_occupied_slots(before.board) + 1
              /\ \A c \in DOMAIN old :
                     new[c] = IF c = before.colours[1] THEN old[c] + 1 ELSE old[c]
    /\ game_over_condition = NotOver =>
           /\ calls < NUM_SLOTS_PER_SIDE * NUM_SLOTS_PER_SIDE
           /\ Len(colours) = 2 => calls < 2 * NUM_MARBLES_PER_COLOUR

\* the 44th move of a two-colour game shifted marbles and ended the game
\* without a winner
C39_LastOfFortyFour ==
    /\ Len(colours) = 2
    /\ calls = 2 * NUM_MARBLES_PER_COLOUR
    /\ raised = None
    /\ Len(events) > 1
    /\ game_over_condition = GameOverCondition(None)

(***************************************************************************)
(* shiftago/ui: ShiftagoExpressModel, BoardController with its             *)
(* _BoardStateMachine and ComputerThinkingWorker, BoardView with its       *)
(* BoardScene and _AnimationManager.  The handlers run on the main thread, *)
(* one at a time; _think runs on the thread of its worker.  A signal       *)
(* emitted on the main thread is handled at once, a MoveSelectedEvent      *)
(* emitted by a worker is queued for the main thread.                      *)
(***************************************************************************)
MaxGames == 2

\* the moves applied in the first game, and in all games once a new game was
\* requested
MaxApplied == 10

MaxReapplied == 4

\* a new game is requested before this many moves have been applied
MaxAbandoned == 2

\* the players of create_model with BLUE as the preferred colour
players == {[colour |-> BLUE, nature |-> "HUMAN"],
            [colour |-> ORANGE, nature |-> "ARTIFICIAL"]}

\* _randomize_player_sequence: the orders random.shuffle can produce
randomize_player_sequence == {<<BLUE, ORANGE>>, <<ORANGE, BLUE>>}

whose_turn_it_is(cols) == CHOOSE p \in players : p.colour = cols[1]

\* the insertions the human player clicks on
Clicks == {Move(LEFT, 0), Move(TOP, 6)}

\* the moves among which select_move finds its choice
Considered == {Move(LEFT, 1), Move(RIGHT, 1)}

\* ShiftagoExpressModel.apply_move: the core's apply_move is called with the
\* model as observer; the method has no return statement and returns None
model_apply_move(b, cols, goc, m) == [apply_move(b, cols, goc, m) EXCEPT !.ret = NotOver]

\* ShiftagoExpressModel.ai_select_move on a game that no one else touches:
\* select_move returns one of the possible moves
ai_select_move(b) == {m \in Considered : find_first_empty_slot(b, m.side, m.position) # NoSlot}

\* _AnimationManager.perform
perform(sc, animation) ==
    IF sc.running # <<>>
    THEN [sc EXCEPT !.waiting = Append(@, animation)]
    ELSE [sc EXCEPT !.running = <<animation>>]

\* _AnimationManager._finished, the emission of AnimationFinishedEvent counted
finished(sc) ==
    IF sc.waiting # <<>>
    THEN [sc EXCEPT !.running = <<Head(sc.waiting)>>, !.waiting = Tail(sc.waiting)]
    ELSE [sc EXCEPT !.running = <<>>, !.finished = @ + 1]

\* shift_marble that reads the marble with _marbles[slot] and leaves it there
shift_marble_without_pop(sc, slot, direction, animation) ==
    LET target_slot == neighbour(slot, direction)
    IN IF sc.marbles[slot] = None THEN [sc EXCEPT !.raised = "KeyError"]
       ELSE perform([sc EXCEPT !.marbles = [@ EXCEPT ![target_slot] = sc.marbles[slot]],
                                !.replaced = @ \/ sc.marbles[target_slot] # None],
                    animation)

\* BoardScene.shift_marble: pop raises KeyError where the view has no marble
shift_marble(sc, slot, direction, animation) ==
    LET target_slot == neighbour(slot, direction)
    IN IF sc.marbles[slot] = None THEN [sc EXCEPT !.raised = "KeyError"]
       ELSE perform([sc EXCEPT !.marbles = [@ EXCEPT ![slot] = None,
                                                     ![target_slot] = sc.marbles[slot]],
                                !.replaced = @ \/ sc.marbles[target_slot] # None],
                    animation)

\* BoardScene.insert_marble
insert_marble_in_scene(sc, slot, colour, animation) ==
    perform([sc EXCEPT !.marbles = [@ EXCEPT ![slot] = colour]], animation)

RECURSIVE update_from_model(_, _, _, _, _)
\* BoardView._update_from_model for the events i, i + 1, ... that the model
\* emits while the core applies move number n; b is the board of the model
update_from_model(sc, b, evs, n, i) ==
    IF i > Len(evs) THEN sc
    ELSE LET animation == [move |-> n, event |-> i, kind |-> evs[i].kind]
         IN update_from_model(
                IF evs[i].kind = "shifted"
                THEN shift_marble(sc, evs[i].slot, evs[i].direction, animation)
                ELSE insert_marble_in_scene(sc, evs[i].slot, colour_at(b, evs[i].slot),
                                            animation),
                b, evs, n, i + 1)

\* BoardScene.reset: the marbles are removed from the scene and from the dict,
\* the animations are left alone.  Whether a removed marble that is the target
\* of an animation is destroyed depends on the references the binding keeps:
\* an animation whose target is destroyed stops without its finished signal,
\* and _running_animation keeps it for good
reset_scene(sc, destroyed) ==
    [sc EXCEPT !.marbles = EmptyBoard,
               !.stalled = @ \/ (destroyed /\ sc.running # <<>>)]

InitUI ==
    /\ \E cols \in randomize_player_sequence : colours = cols
    /\ board = EmptyBoard
    /\ game_over_condition = NotOver
    /\ game = 1
    /\ move = NoMove
    /\ ret = NotOver
    /\ raised = None
    /\ events = <<>>
    /\ before = State(board, colours, game_over_condition)
    /\ calls = 0
    /\ query = NoQuery
    /\ found = NoSlot
    /\ possible_moves = Undetected
    /\ copied = NoCopy
    /\ skill_level = ADVANCED
    /\ frames = <<>>
    /\ selected = NotSelected
    /\ reselected = NotSelected
    /\ minimax = NotSelected
    /\ lifecycle = <<>>
    /\ Started

\* the record of an event handled by BoardController.handle_event
Handled(event, source, exception) ==
    [event |-> event, state |-> current_state, raised |-> exception, source |-> source,
     previous |-> handled.event]

\* to_human_player or to_artifial_player, by the nature of the player whose
\* turn it is, with the enter handler of the state: move selection is enabled,
\* or the thread of the worker is started, which does nothing while it runs
ToPlayer ==
    IF whose_turn_it_is(colours).nature = "HUMAN"
    THEN /\ current_state' = "HumanThinking"
         /\ move_selection_enabled' = "True"
         /\ UNCHANGED thinking
    ELSE /\ current_state' = "ComputerThinking"
         /\ thinking' = IF \E run \in thinking : run.machine = machine THEN thinking
                        ELSE thinking \cup
                                 {[machine |-> machine,
                                   read |-> State(board, colours, game_over_condition)]}
         /\ UNCHANGED move_selection_enabled

\* show_starting_player after the message box is closed: ReadyForFirstMoveEvent
\* is emitted and handled by the controller
ReadyForFirstMove ==
    /\ dialog
    /\ dialog' = FALSE
    /\ handled' = Handled("ReadyForFirstMoveEvent", 0, None)
    /\ ToPlayer
    /\ UNCHANGED <<board, colours, game_over_condition, move, ret, raised, events, before,
                   game, calls, query, found, possible_moves, copied, skill_level, frames,
                   selected, reselected, minimax, lifecycle, machine, emitted, scene>>

\* BoardController.handle_event(MoveSelectedEvent(m)), the event emitted by
\* the view (source 0) or by the worker of state machine number source
MoveSelected(m, source) ==
    LET res == model_apply_move(board, colours, game_over_condition, m)
    IN IF current_state \in {"ComputerThinking", "HumanThinking"}
       THEN /\ handled' = Handled("MoveSelectedEvent", source, res.raised)
            /\ current_state' = "PerformingAnimation"
            /\ move_selection_enabled' = IF current_state = "HumanThinking" THEN "False"
                                         ELSE move_selection_enabled
            /\ board' = res.board
            /\ colours' = res.colours
            /\ game_over_condition' = res.game_over_condition
            /\ events' = res.events
            /\ ret' = res.ret
            /\ raised' = res.raised
            /\ move' = m
            /\ before' = State(board, colours, game_over_condition)
            /\ calls' = IF res.raised = None THEN calls + 1 ELSE calls
            /\ scene' = update_from_model(scene, res.board, res.events, calls + 1, 1)
       ELSE /\ handled' = Handled("MoveSelectedEvent", source, AssertionError)
            /\ UNCHANGED <<current_state, move_selection_enabled, board, colours,
                           game_over_condition, events, ret, raised, move, before, calls,
                           scene>>

\* BoardView.mousePressEvent with the left button on an insertion of Clicks
Click(m) ==
    /\ ~dialog
    /\ calls < (IF machine = 1 THEN MaxApplied ELSE MaxReapplied)
    /\ move_selection_enabled = "True"
    /\ find_first_empty_slot(board, m.side, m.position) # NoSlot
    /\ MoveSelected(m, 0)
    /\ UNCHANGED <<game, query, found, possible_moves, copied, skill_level, frames,
                   selected, reselected, minimax, lifecycle, machine, dialog, thinking,
                   emitted>>

\* ComputerThinkingWorker._think returns: the move select_move has found is
\* emitted; a search on a game that was changed while it ran can return any move
Think(run, m) ==
    /\ run \in thinking
    /\ calls < (IF machine = 1 THEN MaxApplied ELSE MaxReapplied)
    /\ IF run.read = State(board, colours, game_over_condition)
       THEN m \in ai_select_move(board)
       ELSE m \in Considered
    /\ thinking' = thinking \ {run}
    /\ emitted' = Append(emitted, [move |-> m, machine |-> run.machine])
    /\ UNCHANGED <<board, colours, game_over_condition, move, ret, raised, events, before,
                   game, calls, query, found, possible_moves, copied, skill_level, frames,
                   selected, reselected, minimax, lifecycle, current_state, machine,
                   move_selection_enabled, dialog, scene, handled>>

\* the main thread takes the next MoveSelectedEvent of a worker from its queue
Deliver ==
    /\ emitted # <<>>
    /\ emitted' = Tail(emitted)
    /\ MoveSelected(Head(emitted).move, Head(emitted).machine)
    /\ UNCHANGED <<game, query, found, possible_moves, copied, skill_level, frames,
                   selected, reselected, minimax, lifecycle, machine, dialog, thinking>>

\* the running animation finishes: _finished starts the next one or emits
\* AnimationFinishedEvent, which the controller handles
AnimationEnds ==
    /\ scene.running # <<>>
    /\ ~scene.stalled
    /\ scene' = finished(scene)
    /\ IF scene.waiting # <<>>
       THEN UNCHANGED <<current_state, move_selection_enabled, thinking, handled>>
       ELSE IF current_state # "PerformingAnimation"
       THEN /\ handled' = Handled("AnimationFinishedEvent", 0, AssertionError)
            /\ UNCHANGED <<current_state, move_selection_enabled, thinking>>
       ELSE /\ handled' = Handled("AnimationFinishedEvent", 0, None)
            /\ IF game_over_condition = NotOver THEN ToPlayer
               ELSE /\ current_state' = "GameOver"
                    /\ UNCHANGED <<move_selection_enabled, thinking>>
    /\ UNCHANGED <<board, colours, game_over_condition, move, ret, raised, events, before,
                   game, calls, query, found, possible_moves, copied, skill_level, frames,
                   selected, reselected, minimax, lifecycle, machine, dialog, emitted>>

\* _MainWindowController.handle_event(NewGameRequestedEvent) with the abort
\* confirmed: BoardController.reset (the colours setter of the core, the
\* reset of the scene, a new state machine) and the start of the next game
NewGameRequested(cols, destroyed) ==
    LET res == set_colours(State(board, colours, game_over_condition), cols)
    IN /\ ~dialog
       /\ machine < MaxGames
       /\ calls < MaxAbandoned
       /\ cols \in randomize_player_sequence
       /\ board' = res.game_state.board
       /\ colours' = res.game_state.colours
       /\ game_over_condition' = res.game_state.game_over_condition
       /\ scene' = reset_scene(scene, destroyed)
       /\ machine' = machine + 1
       /\ current_state' = "StartPlayerNotification"
       /\ dialog' = TRUE
       /\ handled' = Handled("NewGameRequestedEvent", 0, res.raised)
       /\ UNCHANGED <<move, ret, raised, events, before, game, calls, query, found,
                      possible_moves, copied, skill_level, frames, selected, reselected,
                      minimax, lifecycle, move_selection_enabled, thinking, emitted>>

NextUI ==
    \/ ReadyForFirstMove
    \/ \E m \in Clicks : Click(m)
    \/ \E run \in thinking, m \in Considered : Think(run, m)
    \/ Deliver
    \/ AnimationEnds
    \/ \E cols \in randomize_player_sequence, destroyed \in BOOLEAN :
           NewGameRequested(cols, destroyed)

SpecUI == InitUI /\ [][NextUI]_vars

(***************************************************************************)
(* C32: ShiftagoExpressModel.apply_move(move) returns the value the        *)
(* core's apply_move returns: the game-over condition when the move ends   *)
(* the game, None when the game goes on.                                   *)
(***************************************************************************)
C32_ReturnsGameOverCondition ==
    (handled.event = "MoveSelectedEvent" /\ handled.raised = None) =>
        ret = game_over_condition

(***************************************************************************)
(* C33: the view's move_selection_enabled is true exactly when the current *)
(* state machine of the controller is in HumanThinking, in every sequence  *)
(* of events, a new-game request that replaces the state machine included. *)
(***************************************************************************)
C33_EnabledExactlyInHumanThinking ==
    move_selection_enabled = "True" <=> current_state = "HumanThinking"

(***************************************************************************)
(* C34: whenever the controller handles a MoveSelectedEvent its state      *)
(* machine is in ComputerThinking or HumanThinking, and a move emitted by  *)
(* a worker is handled in ComputerThinking by the state machine that       *)
(* started the worker: it is applied neither in a later game nor as the    *)
(* move of the human player.                                               *)
(***************************************************************************)
C34_MoveSelectedWhileThinking ==
    handled.event = "MoveSelectedEvent" =>
        /\ handled.state \in {"ComputerThinking", "HumanThinking"}
        /\ handled.source # 0 =>
               /\ handled.source = machine
               /\ handled.state = "ComputerThinking"

(***************************************************************************)
(* C35: whenever the controller handles an AnimationFinishedEvent its      *)
(* state machine is in PerformingAnimation, also when a new game was       *)
(* requested while animations of the previous game were running or queued. *)
(***************************************************************************)
C35_AnimationFinishedWhilePerforming ==
    handled.event = "AnimationFinishedEvent" => handled.state = "PerformingAnimation"

(***************************************************************************)
(* C31: while select_move runs on the worker thread nobody else changes    *)
(* the game it reads: in every interleaving with the events of the main    *)
(* thread (clicks, ends of animations, a new-game request) the game is,    *)
(* until _think returns, in the state it had when the search started.      *)
(***************************************************************************)
C31_SearchOwnsTheGame ==
    \A run \in thinking : run.read = State(board, colours, game_over_condition)

(***************************************************************************)
(* C40: the marbles of the view track the model.  While the view processes *)
(* the events of a move in the order the model emits them, every           *)
(* shift_marble finds a marble at the slot of its event and moves it to a  *)
(* slot that holds no marble in the view; after the insert event that ends *)
(* the move the slots with a marble in the BoardScene are the occupied     *)
(* slots of the model.                                                     *)
(***************************************************************************)
C40_SceneTracksModel ==
    /\ scene.raised = None
    /\ ~scene.replaced
    /\ {slot \in Slots : scene.marbles[slot] # None} = {slot \in Slots : board[slot] # None}

\* the view has processed a move that shifted four marbles
C40_FourMarblesShifted ==
    /\ handled.event = "MoveSelectedEvent"
    /\ Len(events) = 5
    /\ \A slot \in Slots : scene.marbles[slot] = board[slot]

(***************************************************************************)
(* C36: the _AnimationManager runs at most one animation at a time and     *)
(* starts the queued ones in the order in which they were handed to it, so *)
(* that the animations of a move play in the order of its events, the      *)
(* shifts first and the insert last; one AnimationFinishedEvent is emitted *)
(* per applied move, when the last animation of that move has finished     *)
(* and no animation is waiting.                                            *)
(***************************************************************************)
\* the animation that runs followed by those that wait
Animations == scene.running \o scene.waiting

C36_OneFinishedEventPerMove ==
    /\ Len(scene.running) <= 1
    /\ scene.waiting # <<>> => scene.running # <<>>
    /\ \A i \in 1 .. Len(Animations) - 1 :
           IF Animations[i].kind = "shifted"
           THEN /\ Animations[i + 1].move = Animations[i].move
                /\ Animations[i + 1].event = Animations[i].event + 1
           ELSE /\ Animations[i + 1].move > Animations[i].move
                /\ Animations[i + 1].event = 1
    /\ Animations # <<>> => Animations[Len(Animations)].kind = "inserted"
    /\ scene.finished = IF Animations = <<>> THEN calls ELSE calls - 1

(***************************************************************************)
(* C37: a move is applied to the model only on the transition from         *)
(* ComputerThinking or HumanThinking to PerformingAnimation; between two   *)
(* applied moves exactly one AnimationFinishedEvent is handled, so that    *)
(* the events handled before a move is applied are as many as the moves    *)
(* applied before it; on that event the controller enters GameOver exactly *)
(* when the model's game_over_condition is set and otherwise HumanThinking *)
(* or ComputerThinking by the nature of the player to move; a state        *)
(* machine that is in GameOver stays there.                                *)
(***************************************************************************)
\* the last event handled was a MoveSelectedEvent whose move was applied
MoveApplied == handled.event = "MoveSelectedEvent" /\ handled.raised = None

C37_AppliedOnTransition ==
    MoveApplied =>
        /\ handled.state \in {"ComputerThinking", "HumanThinking"}
        /\ current_state = "PerformingAnimation"

C37_OneEventBetweenMoves == MoveApplied => scene.finished = calls - 1

C37_NextStateByModel ==
    (handled.event = "AnimationFinishedEvent" /\ handled.raised = None) =>
        /\ handled.state = "PerformingAnimation"
        /\ current_state = IF game_over_condition # NotOver THEN "GameOver"
                           ELSE IF whose_turn_it_is(colours).nature = "HUMAN"
                           THEN "HumanThinking"
                           ELSE "ComputerThinking"

C37_GameOverIsFinal ==
    [][(current_state = "GameOver" /\ machine' = machine) =>
           current_state' = "GameOver"]_vars

C37_MovesAndAnimationsAlternate ==
    /\ [](C37_AppliedOnTransition /\ C37_OneEventBetweenMoves /\ C37_NextStateByModel)
    /\ C37_GameOverIsFinal

====
